---- MODULE Spec2Model ----
(***************************************************************************)
(* Model of the TemplateEngine class of resume-builder-pro                 *)
(* (src/unnamed/part_000): the two registries, render / compile, and the   *)
(* four regex passes of processTemplate.                                   *)
(*                                                                         *)
(* Strings are sequences of lexemes.  A lexeme is either one character of  *)
(* literal text or one well-formed double-brace construct; the regular     *)
(* expressions of the source are modelled by what they match on lexemes.   *)
(* JavaScript values are tagged records, a thrown exception is the err     *)
(* field of a result.                                                      *)
(***************************************************************************)
EXTENDS Integers, Sequences, FiniteSets, TLC

VARIABLES templates, helpers, compiled, last, ret

vars == <<templates, helpers, compiled, last, ret>>

-----------------------------------------------------------------------------
(* Bounds of the model.                                                    *)

\* Nested processTemplate activations the call stack holds before the
\* engine raises RangeError (Maximum call stack size exceeded).
MaxStack == 5

\* Longest sequence of numbers 1..n offered as loop data.
MaxItems == 3

-----------------------------------------------------------------------------
(* JavaScript values.                                                      *)

Undef == [t |-> "undef"]
Null == [t |-> "null"]
Bool(b) == [t |-> "bool", b |-> b]
Num(n) == [t |-> "num", n |-> n]
Str(s) == [t |-> "str", s |-> s]
Arr(a) == [t |-> "arr", a |-> a]
Obj(o) == [t |-> "obj", o |-> o]

\* The object literal {} (a function with no keys).
NoProps == [k \in {} |-> Undef]

-----------------------------------------------------------------------------
(* Lexemes of template text.                                               *)

\* one character of literal text
Txt(c) == [k |-> "txt", s |-> c, p |-> <<>>, a |-> <<>>]
\* {{a.b.c}}
Var(p) == [k |-> "var", s |-> "", p |-> p, a |-> <<>>]
\* {{#each a.b}}
Each(p) == [k |-> "each", s |-> "", p |-> p, a |-> <<>>]
\* {{/each}}
EndEach == [k |-> "/each", s |-> "", p |-> <<>>, a |-> <<>>]
\* {{#if a.b}}
If(p) == [k |-> "if", s |-> "", p |-> p, a |-> <<>>]
\* {{else}}
Else == [k |-> "else", s |-> "", p |-> <<"else">>, a |-> <<>>]
\* {{/if}}
EndIf == [k |-> "/if", s |-> "", p |-> <<>>, a |-> <<>>]
\* {{name <argument text>}}
Call(name, args) == [k |-> "call", s |-> name, p |-> <<>>, a |-> args]

\* Atoms of a helper call's argument text: a double quote, a run of
\* whitespace, or a run of other characters with its text and what the
\* text spells (true, false, a number, or a dotted path).
Quote == [c |-> "q", s |-> <<"\"">>, cls |-> "", n |-> 0, p |-> <<>>]
Space == [c |-> "sp", s |-> <<" ">>, cls |-> "", n |-> 0, p |-> <<>>]
WTrue == [c |-> "w", s |-> <<"t","r","u","e">>, cls |-> "true", n |-> 0, p |-> <<>>]
WFalse == [c |-> "w", s |-> <<"f","a","l","s","e">>, cls |-> "false", n |-> 0, p |-> <<>>]
WNum(n) == [c |-> "w", s |-> <<ToString(n)>>, cls |-> "num", n |-> n, p |-> <<>>]
WPath(chars, p) == [c |-> "w", s |-> chars, cls |-> "path", n |-> 0, p |-> p]
\* 0x10, which Number() reads as 16
WHex == [c |-> "w", s |-> <<"0", "x", "1", "0">>, cls |-> "num", n |-> 16,
         p |-> <<>>]

\* The characters of a short decimal number.
Digits(n) == IF n < 10 THEN <<Txt(ToString(n))>>
             ELSE <<Txt(ToString(n \div 10)), Txt(ToString(n % 10))>>

\* Literal text, one lexeme per character.
Lit(chars) == [i \in 1..Len(chars) |-> Txt(chars[i])]

-----------------------------------------------------------------------------
(* Results of the operations: the returned string or the exception thrown, *)
(* and what happened on the way, in order: one "scope" entry per           *)
(* processTemplate call made by processLoops, one "call" entry per helper  *)
(* function invoked.                                                       *)

Ok(out) == [out |-> out, err |-> "", log |-> <<>>]
Throw(e) == [out |-> <<>>, err |-> e, log |-> <<>>]
WithLog(r, log) == [r EXCEPT !.log = log \o r.log]
\* The value a registry operation returns.
Returned(v) == [out |-> <<>>, err |-> "", log |-> <<>>, v |-> v]

-----------------------------------------------------------------------------
(* JavaScript value semantics used by the engine.                          *)

\* ToBoolean: the test made by `value ? .. : ..`, `if (template)`, `!str`.
Truthy(v) ==
  CASE v.t = "undef" -> FALSE
    [] v.t = "null" -> FALSE
    [] v.t = "bool" -> v.b
    [] v.t = "num" -> v.n # 0
    [] v.t = "str" -> Len(v.s) > 0
    [] OTHER -> TRUE

\* v[key] for a value that is neither null nor undefined.  Keys are the
\* data keys of the model; properties inherited from prototypes (length,
\* constructor, ...) are not among them.
GetProp(v, key) ==
  IF v.t = "obj" /\ key \in DOMAIN v.o THEN v.o[key] ELSE Undef

\* Property names in the order objects list them.
KeyOrder == <<"5", "name", "b", "flag", "items", "title", "achievements",
              "join", "this", "@index", "@first", "@last">>

RECURSIVE Concat(_)
\* Concatenation of a sequence of strings (by halves, to keep the
\* evaluation shallow).
Concat(ss) ==
  IF ss = <<>> THEN <<>>
  ELSE IF Len(ss) = 1 THEN ss[1]
  ELSE Concat(SubSeq(ss, 1, Len(ss) \div 2))
       \o Concat(SubSeq(ss, Len(ss) \div 2 + 1, Len(ss)))

RECURSIVE JoinWith(_, _)
\* Array.prototype.join on already converted elements.
JoinWith(ss, sep) ==
  IF ss = <<>> THEN <<>>
  ELSE IF Len(ss) = 1 THEN ss[1]
  ELSE ss[1] \o sep \o JoinWith(Tail(ss), sep)

RECURSIVE ToStr(_)
\* String(v), the conversion String.prototype.replace applies to what a
\* replacement callback returns.
ToStr(v) ==
  CASE v.t = "undef" -> Lit(<<"u","n","d","e","f","i","n","e","d">>)
    [] v.t = "null" -> Lit(<<"n","u","l","l">>)
    [] v.t = "bool" -> IF v.b THEN Lit(<<"t","r","u","e">>)
                       ELSE Lit(<<"f","a","l","s","e">>)
    [] v.t = "num" -> Digits(v.n)
    [] v.t = "str" -> v.s
    [] v.t = "arr" ->
         JoinWith([i \in 1..Len(v.a) |->
                     IF v.a[i].t \in {"undef", "null"} THEN <<>>
                     ELSE ToStr(v.a[i])], <<Txt(",")>>)
    [] OTHER -> <<Txt("[object Object]")>>

RECURSIVE Json(_)
\* JSON.stringify(v) for a value that is not undefined.
Json(v) ==
  CASE v.t \in {"undef", "null"} -> Lit(<<"n","u","l","l">>)
    [] v.t \in {"bool", "num"} -> ToStr(v)
    [] v.t = "str" -> <<Txt("\"")>> \o v.s \o <<Txt("\"")>>
    [] v.t = "arr" ->
         <<Txt("[")>>
         \o JoinWith([i \in 1..Len(v.a) |-> Json(v.a[i])], <<Txt(",")>>)
         \o <<Txt("]")>>
    [] OTHER ->
         LET keys == SelectSeq(KeyOrder,
                       LAMBDA k : k \in DOMAIN v.o /\ v.o[k].t # "undef")
         IN <<Txt("{")>>
            \o JoinWith([i \in 1..Len(keys) |->
                 <<Txt("\""), Txt(keys[i]), Txt("\""), Txt(":")>>
                 \o Json(v.o[keys[i]])], <<Txt(",")>>)
            \o <<Txt("}")>>

RECURSIVE getValueByPath(_, _)
\* path.split('.').reduce((current, key) =>
\*   current && current[key] !== undefined ? current[key] : undefined, obj)
getValueByPath(obj, path) ==
  IF path = <<>> THEN obj
  ELSE LET next == IF Truthy(obj) /\ GetProp(obj, Head(path)) # Undef
                   THEN GetProp(obj, Head(path)) ELSE Undef
       IN getValueByPath(next, Tail(path))

-----------------------------------------------------------------------------
(* Helper functions.  A helper is named by the function it is; a call      *)
(* yields [err, v]: the exception thrown or the value returned.            *)

Ret(v) == [err |-> "", v |-> v]
Raise(e) == [err |-> e, v |-> Undef]

\* args[i], undefined when the call passes fewer arguments.
Arg(args, i) == IF i <= Len(args) THEN args[i] ELSE Undef

\* toUpperCase of one character.
Upper(c) ==
  CASE c = "a" -> "A" [] c = "b" -> "B" [] c = "g" -> "G" [] c = "h" -> "H"
    [] c = "r" -> "R" [] c = "v" -> "V" [] c = "x" -> "X" [] c = "y" -> "Y" [] OTHER -> c

\* formatDate(date, format = 'short').  Numbers and booleans make a valid
\* Date, whose locale rendering is left opaque; anything else truthy in the
\* model is an Invalid Date.
formatDate(args) ==
  LET date == Arg(args, 1)
      format == IF Arg(args, 2) = Undef THEN Str(Lit(<<"s","h","o","r","t">>))
                ELSE Arg(args, 2)
      valid == date.t \in {"num", "bool"}
      invalid == Str(Lit(<<"I","n","v","a","l","i","d"," ","D","a","t","e">>))
  IN IF ~Truthy(date) THEN Ret(Str(<<>>))
     ELSE IF format = Str(Lit(<<"s","h","o","r","t">>))
       THEN Ret(IF valid THEN Str(<<Txt("<short date>")>>) ELSE invalid)
     ELSE IF format = Str(Lit(<<"l","o","n","g">>))
       THEN Ret(IF valid THEN Str(<<Txt("<long date>")>>) ELSE invalid)
     ELSE IF valid THEN Ret(Str(<<Txt("<iso date>")>>))
     ELSE Raise("RangeError")

\* capitalize(str)
capitalize(args) ==
  LET str == Arg(args, 1)
  IN IF ~Truthy(str) THEN Ret(Str(<<>>))
     ELSE IF str.t # "str" THEN Raise("TypeError")
     ELSE Ret(Str(<<IF Head(str.s).k = "txt" THEN Txt(Upper(Head(str.s).s))
                      ELSE Head(str.s)>> \o Tail(str.s)))

\* join without its default parameter value: arr.join(undefined) joins
\* with a bare comma.
joinWithBareComma(args) ==
  LET arr == Arg(args, 1)
      separator == IF Arg(args, 2) = Undef THEN Lit(<<",">>)
                   ELSE ToStr(Arg(args, 2))
  IN IF arr.t # "arr" THEN Ret(Str(<<>>))
     ELSE Ret(Str(JoinWith([i \in 1..Len(arr.a) |->
                     IF arr.a[i].t \in {"undef", "null"} THEN <<>>
                     ELSE ToStr(arr.a[i])], separator)))

\* join(arr, separator = ', ')
join(args) ==
  LET arr == Arg(args, 1)
      separator == IF Arg(args, 2) = Undef THEN Lit(<<",", " ">>)
                   ELSE ToStr(Arg(args, 2))
  IN IF arr.t # "arr" THEN Ret(Str(<<>>))
     ELSE Ret(Str(JoinWith([i \in 1..Len(arr.a) |->
                     IF arr.a[i].t \in {"undef", "null"} THEN <<>>
                     ELSE ToStr(arr.a[i])], separator)))

\* The default of truncate's length parameter.
DefaultTruncateLength == 100

\* truncate with the length test written < : a string exactly as long as
\* the limit is cut.
truncateCutsAtLimit(args) ==
  LET str == Arg(args, 1)
      length == IF Arg(args, 2).t = "num" THEN Arg(args, 2).n
                ELSE DefaultTruncateLength
      cut == IF length < 0 THEN 0 ELSE length
  IN IF ~Truthy(str) THEN Ret(Str(<<>>))
     ELSE IF str.t = "str" THEN
       IF Len(str.s) < length THEN Ret(str)
       ELSE Ret(Str(SubSeq(str.s, 1, cut) \o Lit(<<".", ".", ".">>)))
     ELSE IF str.t = "arr" /\ Len(str.a) < length THEN Ret(str)
     ELSE Raise("TypeError")

\* truncate(str, length = 100).  The length argument is a number or absent
\* in the model; substring(0, length) reads a negative length as 0.
truncate(args) ==
  LET str == Arg(args, 1)
      length == IF Arg(args, 2).t = "num" THEN Arg(args, 2).n
                ELSE DefaultTruncateLength
      cut == IF length < 0 THEN 0 ELSE length
  IN IF ~Truthy(str) THEN Ret(Str(<<>>))
     ELSE IF str.t = "str" THEN
       IF Len(str.s) <= length THEN Ret(str)
       ELSE Ret(Str(SubSeq(str.s, 1, cut) \o Lit(<<".", ".", ".">>)))
     ELSE IF str.t = "arr" /\ Len(str.a) <= length THEN Ret(str)
     ELSE Raise("TypeError")

\* if(condition, trueValue, falseValue = '')
ifHelper(args) ==
  IF Truthy(Arg(args, 1)) THEN Ret(Arg(args, 2))
  ELSE IF Arg(args, 3) = Undef THEN Ret(Str(<<>>)) ELSE Ret(Arg(args, 3))

\* helper(...args) for the function values of the model: the five default
\* helpers and three functions a caller registers.
ApplyHelper(fn, args) ==
  CASE fn = "formatDate" -> formatDate(args)
    [] fn = "capitalize" -> capitalize(args)
    [] fn = "join" -> join(args)
    [] fn = "truncate" -> truncate(args)
    [] fn = "if" -> ifHelper(args)
    [] fn = "constA" -> Ret(Str(<<Txt("A")>>))
    [] fn = "constB" -> Ret(Str(<<Txt("B")>>))
    [] OTHER -> Raise("Error")

\* registerDefaultHelpers without its last registration.
DefaultHelpersWithoutIf ==
  [h \in {"formatDate", "capitalize", "join", "truncate"} |-> h]

\* registerDefaultHelpers: the registry right after construction.
DefaultHelpers ==
  [h \in {"formatDate", "capitalize", "join", "truncate", "if"} |-> h]

-----------------------------------------------------------------------------
(* parseHelperArgs                                                         *)

\* First index >= from where an atom of class c stands, 0 when none does.
FirstAtom(atoms, c, from) ==
  IF \E i \in from..Len(atoms) : atoms[i].c = c
  THEN CHOOSE i \in from..Len(atoms) :
         atoms[i].c = c /\ \A j \in from..(i - 1) : atoms[j].c # c
  ELSE 0

\* Where one alternative of (?:[^\s"]+|"[^"]*") starting at i ends, 0 when
\* neither matches there.
UnitEnd(atoms, i) ==
  IF i > Len(atoms) THEN 0
  ELSE IF atoms[i].c = "w" THEN i
  ELSE IF atoms[i].c = "q" THEN FirstAtom(atoms, "q", i + 1)
  ELSE 0

RECURSIVE PartEnd(_, _)
\* Where the greedy match of (?:[^\s"]+|"[^"]*")+ starting at i ends,
\* i - 1 when it matches nothing there.
PartEnd(atoms, i) ==
  LET e == UnitEnd(atoms, i)
  IN IF e = 0 THEN i - 1 ELSE PartEnd(atoms, e + 1)

RECURSIVE SplitArgsOnEverySpace(_, _)
\* SplitArgs as argsString.split(/\s+/) would do it: quotes do not keep
\* whitespace from separating.
SplitArgsOnEverySpace(atoms, i) ==
  IF i > Len(atoms) THEN <<>>
  ELSE IF atoms[i].c = "sp" THEN SplitArgsOnEverySpace(atoms, i + 1)
  ELSE LET sp == FirstAtom(atoms, "sp", i)
           e == IF sp = 0 THEN Len(atoms) ELSE sp - 1
       IN <<SubSeq(atoms, i, e)>> \o SplitArgsOnEverySpace(atoms, e + 1)

RECURSIVE SplitArgs(_, _)
\* argsString.match(/(?:[^\s"]+|"[^"]*")+/g) || [], scanning from i.
SplitArgs(atoms, i) ==
  IF i > Len(atoms) THEN <<>>
  ELSE LET e == PartEnd(atoms, i)
       IN IF e < i THEN SplitArgs(atoms, i + 1)
          ELSE <<SubSeq(atoms, i, e)>> \o SplitArgs(atoms, e + 1)

\* The characters of a run of atoms, as literal text.
AtomText(atoms) == Lit(Concat([i \in 1..Len(atoms) |-> atoms[i].s]))

\* ParseArg with the number test left out: a numeric-looking token is
\* looked up as a data path.
ParseArgLooksUpNumbers(part, data) ==
  IF Len(part) >= 2 /\ part[1].c = "q" /\ part[Len(part)].c = "q"
    THEN Str(AtomText(SubSeq(part, 2, Len(part) - 1)))
  ELSE IF Len(part) = 1 /\ part[1].cls = "true" THEN Bool(TRUE)
  ELSE IF Len(part) = 1 /\ part[1].cls = "false" THEN Bool(FALSE)
  ELSE IF Len(part) = 1 /\ part[1].cls = "num"
    THEN getValueByPath(data, <<part[1].s[1]>>)
  ELSE IF Len(part) = 1 THEN getValueByPath(data, part[1].p)
  ELSE Undef

\* The forEach body of parseHelperArgs for one part.
ParseArg(part, data) ==
  IF Len(part) >= 2 /\ part[1].c = "q" /\ part[Len(part)].c = "q"
    THEN Str(AtomText(SubSeq(part, 2, Len(part) - 1)))
  ELSE IF Len(part) = 1 /\ part[1].cls = "true" THEN Bool(TRUE)
  ELSE IF Len(part) = 1 /\ part[1].cls = "false" THEN Bool(FALSE)
  ELSE IF Len(part) = 1 /\ part[1].cls = "num" THEN Num(part[1].n)
  ELSE IF Len(part) = 1 THEN getValueByPath(data, part[1].p)
  ELSE Undef

parseHelperArgs(argsString, data) ==
  LET parts == SplitArgs(argsString, 1)
  IN [i \in 1..Len(parts) |-> ParseArg(parts[i], data)]

-----------------------------------------------------------------------------
(* The four passes of processTemplate.                                     *)

\* First index >= from where a lexeme of kind k stands, 0 when none does.
FirstLex(template, k, from) ==
  IF \E i \in from..Len(template) : template[i].k = k
  THEN CHOOSE i \in from..Len(template) :
         template[i].k = k /\ \A j \in from..(i - 1) : template[j].k # k
  ELSE 0

\* IsVarRef for a pattern that lets # and / begin the reference
\* (/\{\{([#\/]?\w+(?:[.\s]\w+)*)\}\}/): block markers match as well.
IsVarRefOrMarker(lex) == lex.k \notin {"txt", "call"}

\* IsVarRef for a pattern without the braces (/\w+(?:\.\w+)*/): the
\* characters of plain text match as well.
IsVarRefOrWord(lex) == lex.k \in {"var", "else", "txt"}

\* IsVarRef that leaves the name of a registered helper to the helper
\* pass.
IsVarRefUnlessHelper(lex) ==
  /\ lex.k \in {"var", "else"}
  /\ ~(Len(lex.p) = 1 /\ lex.p[1] \in DOMAIN helpers)

\* What /\{\{(\w+(?:\.\w+)*)\}\}/ matches: a dotted reference, and {{else}},
\* which is one.
IsVarRef(lex) == lex.k \in {"var", "else"}

\* What /\{\{this\.(\w+)\}\}/ matches.
IsThisProp(lex) == lex.k = "var" /\ Len(lex.p) = 2 /\ lex.p[1] = "this"

\* What /\{\{this\}\}/ matches.
IsThis(lex) == lex.k = "var" /\ lex.p = <<"this">>

\* VarText with the null test written as a falsy test (!value).
VarTextFalsyBlank(lex, data) ==
  LET value == getValueByPath(data, lex.p)
  IN IF ~Truthy(value) THEN <<>>
     ELSE IF value.t \in {"arr", "obj"} THEN Json(value)
     ELSE ToStr(value)

\* The replacement of one variable reference (the callback of
\* processVariables).
VarText(lex, data) ==
  LET value == getValueByPath(data, lex.p)
  IN IF value.t \in {"undef", "null"} THEN <<>>
     ELSE IF value.t \in {"arr", "obj"} THEN Json(value)
     ELSE ToStr(value)

processVariables(template, data) ==
  Concat([i \in 1..Len(template) |->
            IF IsVarRef(template[i]) THEN VarText(template[i], data)
            ELSE <<template[i]>>])

\* The registry a compiled function would read if compile bound the
\* helpers when it ran.
HelpersBoundAtCompile == compiled.helpersThen

\* this.helpers as the callback of processHelpers reads it: the registry
\* of the engine at the time of the evaluation.
HelperRegistry == helpers

\* The record of one invocation helper(...args): the construct's name and
\* argument text, the context, the function found under the name, the
\* values passed, and the value returned or the exception thrown.
Invocation(lex, data, fn, args, r) ==
  [ev |-> "call", name |-> lex.s, text |-> lex.a, data |-> data,
   fn |-> fn, args |-> args, err |-> r.err, v |-> r.v]

\* HelperText with the invocation wrapped in try / catch: a helper that
\* throws renders ''.
HelperTextCatches(lex, data) ==
  IF lex.s \notin DOMAIN HelperRegistry THEN Ok(<<lex>>)
  ELSE LET args == parseHelperArgs(lex.a, data)
           r == ApplyHelper(HelperRegistry[lex.s], args)
           inv == <<Invocation(lex, data, HelperRegistry[lex.s], args, r)>>
       IN IF r.err # "" THEN WithLog(Ok(<<>>), inv)
          ELSE WithLog(Ok(ToStr(r.v)), inv)

\* HelperText returning '' for a helper that is not registered.
HelperTextBlanksUnknown(lex, data) ==
  IF lex.s \notin DOMAIN HelperRegistry THEN Ok(<<>>)
  ELSE LET args == parseHelperArgs(lex.a, data)
           r == ApplyHelper(HelperRegistry[lex.s], args)
           inv == <<Invocation(lex, data, HelperRegistry[lex.s], args, r)>>
       IN IF r.err # "" THEN WithLog(Throw(r.err), inv)
          ELSE WithLog(Ok(ToStr(r.v)), inv)

\* The callback of processHelpers for one {{name args}} construct.
HelperText(lex, data) ==
  IF lex.s \notin DOMAIN HelperRegistry THEN Ok(<<lex>>)
  ELSE LET args == parseHelperArgs(lex.a, data)
           r == ApplyHelper(HelperRegistry[lex.s], args)
           inv == <<Invocation(lex, data, HelperRegistry[lex.s], args, r)>>
       IN IF r.err # "" THEN WithLog(Throw(r.err), inv)
          ELSE WithLog(Ok(ToStr(r.v)), inv)

\* The text before a match, its replacement and the result of the scan
\* after it, put together; an exception thrown after the match wins.
Splice(before, rep, rest) ==
  IF rest.err # "" THEN WithLog(rest, rep.log)
  ELSE [out |-> before \o rep.out \o rest.out, err |-> "",
        log |-> rep.log \o rest.log]

RECURSIVE processHelpers(_, _)
\* template.replace(helperRegex, callback): the constructs are replaced
\* from left to right and the first helper that throws ends the pass.
processHelpers(template, data) ==
  LET i == FirstLex(template, "call", 1)
  IN IF i = 0 THEN Ok(template)
     ELSE LET r == HelperText(template[i], data)
          IN IF r.err # "" THEN r
             ELSE LET rest == processHelpers(
                                SubSeq(template, i + 1, Len(template)), data)
                  IN Splice(SubSeq(template, 1, i - 1), r, rest)

\* itemData without the spread of data: {this, '@index', '@first',
\* '@last'} and nothing of the enclosing context.
LoopScopeWithoutSpread(data, item, index, length) ==
  Obj(("this" :> item) @@ ("@index" :> Num(index))
      @@ ("@first" :> Bool(index = 0))
      @@ ("@last" :> Bool(index = length - 1)))

\* itemData of processLoops: {...data, this, '@index', '@first', '@last'}.
LoopScope(data, item, index, length) ==
  Obj(("this" :> item) @@ ("@index" :> Num(index))
      @@ ("@first" :> Bool(index = 0))
      @@ ("@last" :> Bool(index = length - 1))
      @@ (IF data.t = "obj" THEN data.o ELSE NoProps))

\* DataAfterScope if the bindings were assigned to data itself
\* (Object.assign(data, {this: item, ...})): the scope is the caller's
\* object.
DataAfterScopeAssigned(data, itemData) == itemData

\* The object data refers to once `const itemData = {...data, ...}` has
\* run: the spread copies its properties into a fresh object literal and
\* writes nothing to data.
DataAfterScope(data, itemData) == data

\* content.replace(/\{\{this\.(\w+)\}\}/g, (m, prop) =>
\*   item[prop] !== undefined ? item[prop] : ''): reading a property of
\* null or undefined throws.
SubstThisProp(content, item) ==
  IF (\E i \in 1..Len(content) : IsThisProp(content[i]))
     /\ item.t \in {"undef", "null"}
  THEN Throw("TypeError")
  ELSE Ok(Concat([i \in 1..Len(content) |->
            IF IsThisProp(content[i])
            THEN IF GetProp(item, content[i].p[2]) # Undef
                 THEN ToStr(GetProp(item, content[i].p[2])) ELSE <<>>
            ELSE <<content[i]>>]))

\* itemContent.replace(/\{\{this\}\}/g,
\*   typeof item === 'object' ? JSON.stringify(item) : item)
\* (the data of the model holds no $ replacement pattern).
SubstThis(content, item) ==
  LET text == IF item.t \in {"null", "arr", "obj"} THEN Json(item)
              ELSE ToStr(item)
  IN Concat([i \in 1..Len(content) |->
               IF IsThis(content[i]) THEN text ELSE <<content[i]>>])

RECURSIVE processTemplate(_, _, _)
RECURSIVE processLoops(_, _, _)
RECURSIVE LoopItems(_, _, _, _, _)
RECURSIVE processConditionals(_, _, _)
RECURSIVE IfElsePass(_, _, _)
RECURSIVE IfPass(_, _, _)

\* items.map((item, index) => ...).join('') from element idx on; depth is
\* the number of processTemplate activations on the stack.  The "scope"
\* entry of an iteration records the scope built (data), the object the
\* loop was given (given) and that object once the scope is built (after).
LoopItems(content, data, items, idx, depth) ==
  IF idx > Len(items) THEN Ok(<<>>)
  ELSE
    LET item == items[idx]
        itemData == LoopScope(data, item, idx - 1, Len(items))
        c1 == SubstThisProp(content, item)
    IN IF c1.err # "" THEN c1
       ELSE
         LET entry == [ev |-> "scope", depth |-> depth + 1, index |-> idx - 1,
                       first |-> itemData.o["@first"].b,
                       last |-> itemData.o["@last"].b, item |-> item,
                       data |-> itemData, given |-> data,
                       after |-> DataAfterScope(data, itemData)]
             r == WithLog(processTemplate(SubstThis(c1.out, item), itemData,
                                          depth + 1), <<entry>>)
         IN IF r.err # "" THEN r
            ELSE LET rest == LoopItems(content,
                                       DataAfterScope(data, itemData),
                                       items, idx + 1, depth)
                 IN Splice(<<>>, r, rest)

\* LoopReplacement without the Array.isArray test: a value that is no
\* array leaves the body in place.
LoopReplacementKeepsBody(path, content, data, depth) ==
  LET items == getValueByPath(data, path)
  IN IF items.t # "arr" THEN Ok(content)
     ELSE LoopItems(content, data, items.a, 1, depth)

\* The callback of processLoops for one match: nothing unless the path
\* resolves to an array.
LoopReplacement(path, content, data, depth) ==
  LET items == getValueByPath(data, path)
  IN IF items.t # "arr" THEN Ok(<<>>)
     ELSE LoopItems(content, data, items.a, 1, depth)

\* template.replace(loopRegex, callback): the leftmost {{#each path}} is
\* matched with the first {{/each}} after it (the body is lazy), and the
\* scan goes on after the match.
processLoops(template, data, depth) ==
  LET i == FirstLex(template, "each", 1)
      j == IF i = 0 THEN 0 ELSE FirstLex(template, "/each", i + 1)
  IN IF j = 0 THEN Ok(template)
     ELSE
       LET rep == LoopReplacement(template[i].p,
                                  SubSeq(template, i + 1, j - 1), data, depth)
       IN IF rep.err # "" THEN rep
          ELSE LET rest == processLoops(
                             SubSeq(template, j + 1, Len(template)), data, depth)
               IN Splice(SubSeq(template, 1, i - 1), rep, rest)

\* template.replace(ifElseRegex, callback): the leftmost {{#if path}} that
\* has an {{else}} after it and an {{/if}} after that {{else}}; both
\* contents are lazy.
IfElsePass(template, data, depth) ==
  LET i == FirstLex(template, "if", 1)
      e == IF i = 0 THEN 0 ELSE FirstLex(template, "else", i + 1)
      f == IF e = 0 THEN 0 ELSE FirstLex(template, "/if", e + 1)
  IN IF f = 0 THEN Ok(template)
     ELSE
       LET value == getValueByPath(data, template[i].p)
           rep == IF Truthy(value)
                  THEN processTemplate(SubSeq(template, i + 1, e - 1), data,
                                       depth + 1)
                  ELSE processTemplate(SubSeq(template, e + 1, f - 1), data,
                                       depth + 1)
       IN IF rep.err # "" THEN rep
          ELSE LET rest == IfElsePass(
                             SubSeq(template, f + 1, Len(template)), data, depth)
               IN Splice(SubSeq(template, 1, i - 1), rep, rest)

\* template.replace(ifRegex, callback)
IfPass(template, data, depth) ==
  LET i == FirstLex(template, "if", 1)
      f == IF i = 0 THEN 0 ELSE FirstLex(template, "/if", i + 1)
  IN IF f = 0 THEN Ok(template)
     ELSE
       LET value == getValueByPath(data, template[i].p)
           rep == IF Truthy(value)
                  THEN processTemplate(SubSeq(template, i + 1, f - 1), data,
                                       depth + 1)
                  ELSE Ok(<<>>)
       IN IF rep.err # "" THEN rep
          ELSE LET rest == IfPass(
                             SubSeq(template, f + 1, Len(template)), data, depth)
               IN Splice(SubSeq(template, 1, i - 1), rep, rest)

processConditionals(template, data, depth) ==
  LET r1 == IfElsePass(template, data, depth)
  IN IF r1.err # "" THEN r1
     ELSE WithLog(IfPass(r1.out, data, depth), r1.log)

\* The names of the four passes, in the order of the statements of
\* processTemplate.
PassNames == <<"loops", "conditionals", "variables", "helpers">>

\* One statement `result = this.processX(result, data)` of the invocation
\* of processTemplate at `depth`: the trace shows the pass called with its
\* argument, what happens inside it, and, unless it throws, the pass
\* returning its result.
Pass(name, depth, input, r) ==
  [r EXCEPT !.log =
     <<[ev |-> "begin", pass |-> name, depth |-> depth, text |-> input]>>
     \o r.log
     \o (IF r.err # "" THEN <<>>
         ELSE <<[ev |-> "end", pass |-> name, depth |-> depth,
                 text |-> r.out]>>)]

\* The last statement of processTemplate, the helper pass, given what the
\* variable pass returned.
AfterVariables(r3, data, depth) ==
  WithLog(Pass("helpers", depth, r3.out, processHelpers(r3.out, data)),
          r3.log)

\* The statements of processTemplate after the conditional pass.
AfterConditionals(r2, data, depth) ==
  IF r2.err # "" THEN r2
  ELSE WithLog(AfterVariables(Pass("variables", depth, r2.out,
                                   Ok(processVariables(r2.out, data))),
                              data, depth),
               r2.log)

\* AfterLoops without `result = this.processConditionals(result, data)`:
\* the variable pass follows the loop pass.
AfterLoopsSkipsConditionals(r1, data, depth) ==
  IF r1.err # "" THEN r1
  ELSE WithLog(AfterConditionals(Ok(r1.out), data, depth), r1.log)

\* The statements of processTemplate after the loop pass.
AfterLoops(r1, data, depth) ==
  IF r1.err # "" THEN r1
  ELSE WithLog(AfterConditionals(
                 Pass("conditionals", depth, r1.out,
                      processConditionals(r1.out, data, depth)),
                 data, depth),
               r1.log)

\* processTemplate with `depth` activations of it already on the stack;
\* past MaxStack the engine throws RangeError.
processTemplate(template, data, depth) ==
  IF depth > MaxStack THEN Throw("RangeError")
  ELSE AfterLoops(Pass("loops", depth, template,
                       processLoops(template, data, depth)),
                  data, depth)

-----------------------------------------------------------------------------
(* The registries and the public operations.                               *)

\* this.templates is a Map: entries in insertion order.
MapHas(map, name) == \E i \in 1..Len(map) : map[i].name = name

\* Map.prototype.get
MapGet(map, name) ==
  IF MapHas(map, name)
  THEN map[CHOOSE i \in 1..Len(map) : map[i].name = name].tpl
  ELSE Undef

\* MapSet that leaves an existing entry as it is (first write wins).
MapSetKeepsFirst(map, name, tpl) ==
  IF MapHas(map, name) THEN map
  ELSE Append(map, [name |-> name, tpl |-> tpl])

\* MapSet as a fresh Map holding the one entry
\* (this.templates = new Map([[name, template]])).
MapSetDropsOthers(map, name, tpl) == <<[name |-> name, tpl |-> tpl]>>

\* Map.prototype.set: an existing key keeps its place.
MapSet(map, name, tpl) ==
  IF MapHas(map, name)
  THEN [i \in 1..Len(map) |->
          IF map[i].name = name THEN [name |-> name, tpl |-> tpl] ELSE map[i]]
  ELSE Append(map, [name |-> name, tpl |-> tpl])

\* Array.from(this.templates.keys())
getTemplateNames(map) == [i \in 1..Len(map) |-> map[i].name]

\* The markup render hands to processTemplate.
RenderMarkup(map, templateName) ==
  LET template == MapGet(map, templateName)
  IN IF Truthy(template)
     THEN IF Truthy(GetProp(template, "html")) THEN GetProp(template, "html")
          ELSE template
     ELSE Str(templateName)

\* render without the else branch `html = templateName`: a name that is
\* not registered renders the initial ''.
renderOfRegisteredOnly(templateName, data) ==
  LET html == RenderMarkup(templates, templateName)
  IN IF ~Truthy(MapGet(templates, templateName)) THEN Ok(<<>>)
     ELSE IF html.t # "str" THEN Throw("TypeError")
     ELSE processTemplate(html.s, data, 0)

\* render(templateName, data); a markup that is no string has no replace
\* method.
render(templateName, data) ==
  LET html == RenderMarkup(templates, templateName)
  IN IF html.t # "str" THEN Throw("TypeError")
     ELSE processTemplate(html.s, data, 0)

\* The function compile(templateString) returns, applied to data.
CallCompiledFn(templateString, data) == processTemplate(templateString, data, 0)

-----------------------------------------------------------------------------
(* Inputs offered to the operations.                                       *)

Ada == Str(Lit(<<"A", "d", "a">>))

Go == Str(Lit(<<"G", "o">>))
Rust == Str(Lit(<<"R", "u", "s", "t">>))
HelloWorld == Str(Lit(<<"H","e","l","l","o"," ","W","o","r","l","d">>))

\* A string one character longer than truncate's default length.
LongText == Str([i \in 1..(DefaultTruncateLength + 1) |-> Txt("a")])

\* A string that spells a loop over the sequence it is an element of.
LoopMarkup == Str(<<Each(<<"items">>), Var(<<"this">>), EndEach>>)

\* [1, 2, ..., n]
Numbers(n) == Arr([i \in 1..n |-> Num(i)])

Job(title, achievements) ==
  Obj([title |-> Str(Lit(<<title>>)), achievements |-> achievements])

\* Values under the loop path: absent, null, scalars, a mapping, and
\* sequences of numbers, of null, of mappings and of strings holding markup.
ItemsVals ==
  {Undef, Null, Num(5), Ada, Obj([title |-> Str(Lit(<<"x">>))])}
  \cup {Numbers(n) : n \in 0..MaxItems}
  \cup {Arr(<<Null>>), Arr(<<Num(1), Null>>), Arr(<<Ada, Bool(TRUE)>>),
        Arr(<<Obj([title |-> Str(Lit(<<"x">>))]), Obj(NoProps)>>),
        Arr(<<Job("x", Arr(<<Str(Lit(<<"a">>)), Str(Lit(<<"b">>))>>)),
              Job("y", Arr(<<>>))>>),
        Arr(<<Obj([title |-> Null]), Obj([title |-> Numbers(2)])>>),
        Arr(<<LoopMarkup>>),
        Arr(<<Str(<<Var(<<"name">>)>>)>>),
        Arr(<<Go, Rust>>)}

\* Values under the conditional path: the falsy values and truthy ones.
FlagVals ==
  {Undef, Null, Bool(FALSE), Num(0), Str(<<>>),
   Bool(TRUE), Num(1), Str(Lit(<<"x">>)), Arr(<<>>), Obj(NoProps)}

\* Values under the variable path.
NameVals ==
  {Undef, Null, Ada, Num(0), Num(7), Bool(FALSE), Bool(TRUE), Str(<<>>),
   Numbers(2), Obj([title |-> Ada]), Str(<<Var(<<"b">>)>>), HelloWorld,
   LongText}

\* {items, flag, name, b: "v"} without the absent properties.
MkData(items, flag, name) ==
  Obj([k \in {"b"}
         \cup (IF items = Undef THEN {} ELSE {"items"})
         \cup (IF flag = Undef THEN {} ELSE {"flag"})
         \cup (IF name = Undef THEN {} ELSE {"name"}) |->
       CASE k = "items" -> items [] k = "flag" -> flag [] k = "name" -> name
         [] OTHER -> Str(Lit(<<"v">>))])

\* Data contexts: an absent and a null root, and objects that vary one
\* property at a time around {items: [1, 2], flag: true, name: "Ada"}.
DataSet ==
  {Undef, Null}
  \cup {MkData(i, Bool(TRUE), Ada) : i \in ItemsVals}
  \cup {MkData(Numbers(2), f, Ada) : f \in FlagVals}
  \cup {MkData(Numbers(2), Bool(TRUE), n) : n \in NameVals}
  \cup {MkData(Job("x", Numbers(1)), Num(0), Null),
        Obj(("5" :> Str(Lit(<<"x">>))) @@ MkData(Numbers(2), Bool(TRUE), Ada).o),
        Obj(("join" :> Go) @@ MkData(Numbers(2), Bool(TRUE), Ada).o)}

\* {{nohelper name "x y"}}: a call of a helper nobody registers.
UnknownCall ==
  Call("nohelper", <<WPath(<<"n","a","m","e">>, <<"name">>), Space, Quote,
                     WPath(<<"x">>, <<"x">>), Space,
                     WPath(<<"y">>, <<"y">>), Quote>>)

\* {{shout name}}: a call of a helper a caller may register.
ShoutCall == Call("shout", <<WPath(<<"n","a","m","e">>, <<"name">>)>>)

\* {{capitalize b}}
CapitalizeCall == Call("capitalize", <<WPath(<<"b">>, <<"b">>)>>)

\* Words of argument text that spell data paths.
WName == WPath(<<"n", "a", "m", "e">>, <<"name">>)
WFlag == WPath(<<"f", "l", "a", "g">>, <<"flag">>)
WItems == WPath(<<"i", "t", "e", "m", "s">>, <<"items">>)
WB == WPath(<<"b">>, <<"b">>)
WBar == WPath(<<"|">>, <<"|">>)
WNameTitle == WPath(<<"n","a","m","e",".","t","i","t","l","e">>, <<"name", "title">>)
WThisTitle == WPath(<<"t","h","i","s",".","t","i","t","l","e">>, <<"this", "title">>)

\* Helper calls whose argument tokens are bare: paths, true / false and
\* numbers in every position.
ArgCalls ==
  {Call("if", <<WFlag, Space, WNum(5), Space, WName>>),
   Call("if", <<WTrue, Space, WName, Space, WNum(7)>>),
   Call("if", <<WFalse, Space, WName, Space, WHex>>),
   Call("if", <<WNameTitle, Space, WB, Space, WTrue>>),
   Call("join", <<WItems, Space, WNum(5)>>),
   Call("join", <<WItems>>),
   Call("truncate", <<WName, Space, WNum(5)>>),
   Call("truncate", <<WName>>),
   Call("truncate", <<WName, Space, WNum(0)>>),
   Call("truncate", <<WName, Space, WNum(3)>>),
   Call("truncate", <<WName, Space, WNum(11)>>),
   Call("truncate", <<WName, Space, WNum(-1)>>),
   Call("truncate", <<WItems, Space, WNum(2)>>)}

\* Helper calls with double-quoted spans: {{join items " | "}}, an empty
\* span, spans that spell true and a number, two spans with nothing in
\* between, and a quote that is never closed.
QuotedCalls ==
  {Call("join", <<WItems, Space, Quote, Space, WBar, Space, Quote>>),
   Call("join", <<WItems, Space, Quote, Quote>>),
   Call("if", <<WFlag, Space, Quote, WTrue, Quote, Space,
                Quote, WNum(5), Space, WB, Quote>>),
   Call("if", <<WFlag, Space, Quote, WB, Quote, Quote, WB, Quote>>),
   Call("if", <<WFlag, Space, Quote, Space, WB>>)}

\* Loop bodies and conditional branches.
Bodies ==
  {<<>>, <<Txt("x")>>, <<Var(<<"this">>), Txt(",")>>,
   <<Var(<<"this", "title">>)>>, <<Var(<<"name">>)>>,
   <<Var(<<"flag">>), Txt(";")>>, <<UnknownCall>>, <<CapitalizeCall>>,
   <<Var(<<"items", "title">>)>>, <<Var(<<"name", "title", "b">>)>>}

\* Paths a block is keyed by.
LoopPaths == {<<"items">>, <<"items", "title">>, <<"flag">>}
CondPaths == {<<"flag">>, <<"name", "title">>}

LoopBlock(path, body) == <<Each(path)>> \o body \o <<EndEach>>
IfBlock(path, x) == <<If(path)>> \o x \o <<EndIf>>
IfElseBlock(path, x, y) == <<If(path)>> \o x \o <<Else>> \o y \o <<EndIf>>

\* {{#each items}}{{this.title}}:{{#each this.achievements}}{{this}};
\* {{/each}}|{{/each}}, the nesting of the professional resume template.
NestedLoops ==
  <<Each(<<"items">>), Var(<<"this", "title">>), Txt(":"),
    Each(<<"this", "achievements">>), Var(<<"this">>), Txt(";"), EndEach,
    Txt("|"), EndEach>>

\* {{#if flag}}x{{/if}}{{#if name}}y{{else}}z{{/if}}: a guarded section
\* followed by a section with an alternative, as the resume templates
\* write them.
ConsecutiveConditionals ==
  IfBlock(<<"flag">>, <<Txt("x")>>)
    \o IfElseBlock(<<"name">>, <<Txt("y")>>, <<Txt("z")>>)

\* {{#each items}}{{name}}{{this}},{{/each}}|{{this}}{{name}}
\* {{if this.title name b}}: references to the context and to the current
\* item inside a loop and after it.
AfterLoopRefs ==
  LoopBlock(<<"items">>, <<Var(<<"name">>), Var(<<"this">>), Txt(",")>>)
    \o <<Txt("|"), Var(<<"this">>), Var(<<"name">>),
         Call("if", <<WThisTitle, Space, WName, Space, WB>>)>>

\* Constructs that are a helper's name and nothing else, {{join}} and
\* {{capitalize}}, and constructs that are a helper's name followed by
\* blank argument text, {{join  }} and {{if  }}.
BareHelperNames == {<<Var(<<"join">>)>>, <<Var(<<"capitalize">>)>>}
BlankCalls == {<<Call("join", <<Space>>)>>, <<Call("if", <<Space>>)>>}

\* Raw templates: plain bodies, one loop block between literal text, one
\* conditional block of either form, nested loops, and blocks that are
\* not closed or not opened.
RawTemplates ==
  Bodies
  \cup {<<Txt("[")>> \o LoopBlock(p, b) \o <<Txt("]")>> :
          p \in LoopPaths, b \in Bodies}
  \cup {LoopBlock(<<"items">>, b) : b \in Bodies}
  \cup {IfBlock(p, x) : p \in CondPaths, x \in Bodies}
  \cup {IfElseBlock(<<"flag">>, x, y) :
          x \in {<<Txt("x")>>, <<Var(<<"name">>)>>, <<>>},
          y \in {<<Txt("y")>>, <<Var(<<"b">>)>>, <<UnknownCall>>}}
  \cup {<<c>> : c \in ArgCalls \cup QuotedCalls}
  \cup BareHelperNames \cup BlankCalls
  \cup {NestedLoops, ConsecutiveConditionals, AfterLoopRefs,
        LoopBlock(<<"items">>, IfBlock(<<"this", "title">>, <<Txt("y")>>)),
        LoopBlock(<<"items">>,
          <<Call("if", <<WThisTitle, Space, WThisTitle, Space, WNum(0)>>)>>),
        <<Each(<<"items">>), Txt("x")>>, <<Txt("x"), EndEach>>,
        <<If(<<"flag">>), Txt("x")>>, <<Txt("x"), Else, EndIf>>,
        <<EndEach, Var(<<"name">>), EndIf>>
          \o LoopBlock(<<"items">>, <<Var(<<"this">>), Txt(",")>>)
          \o <<If(<<"flag">>), Var(<<"b">>), Each(<<"items">>)>>,
        <<EndIf, Txt("x")>> \o IfBlock(<<"flag">>, <<Var(<<"name">>)>>)
          \o <<Each(<<"items">>), Var(<<"b">>), If(<<"name">>)>>,
        <<EndIf, Var(<<"name">>), EndEach, If(<<"flag">>), Each(<<"items">>)>>}

\* Names templates are registered under; a name is a string like any other.
TemplateNames == {Lit(<<"t">>), <<Var(<<"name">>)>>}

\* Template values the application registers: a markup string, possibly
\* empty, or an object with the markup under html.
TemplateVals ==
  {Str(<<>>), Str(<<Txt("x"), Var(<<"name">>)>>),
   Obj([html |-> Str(<<Txt("y"), Var(<<"name">>)>>)]),
   Obj([html |-> Str(<<>>)])}

\* The registrations callers make: every template value under the first
\* name and a markup string under the second.
TemplateRegs ==
  {<<Lit(<<"t">>), tpl>> : tpl \in TemplateVals}
  \cup {<<<<Var(<<"name">>)>>, Str(<<Txt("z")>>)>>}

\* Helper registrations: a new helper, registered twice over, and a
\* default helper replaced by a function that throws.
HelperRegs ==
  {<<"shout", "constA">>, <<"shout", "constB">>, <<"capitalize", "boom">>}

\* Arguments of the operations of the full state machine.
CallTemplates ==
  TemplateNames
  \cup {<<Txt("x")>>, <<ShoutCall>>, <<CapitalizeCall>>, <<UnknownCall, Txt("x")>>,
        LoopBlock(<<"items">>, <<Var(<<"this">>), ShoutCall>>),
        LoopBlock(<<"items">>, <<Txt("x"), CapitalizeCall>>),
        IfBlock(<<"flag">>, <<Txt("x"), CapitalizeCall, ShoutCall>>),
        IfElseBlock(<<"flag">>, <<Var(<<"name">>)>>, <<UnknownCall>>)}
CompileTemplates ==
  {Lit(<<"t">>), <<ShoutCall>>,
   LoopBlock(<<"items">>, <<Var(<<"this">>), ShoutCall>>)}
CallData ==
  {Undef, MkData(Numbers(2), Bool(TRUE), Ada),
   MkData(Arr(<<Null>>), Bool(FALSE), Undef)}

-----------------------------------------------------------------------------
(* The state machine: an evaluator and the calls made on it.               *)

\* No function has been compiled yet.
NoFn == <<[k |-> "none", s |-> "", p |-> <<>>, a |-> <<>>]>>

\* The function compile(templateString) returns: a closure over the engine
\* and templateString.  helpersThen remembers the helper registry as it
\* was when compile ran; the function does not hold it.
Closure(templateString, helpersThen) ==
  [templateString |-> templateString, helpersThen |-> helpersThen]

\* new TemplateEngine()
Init ==
  /\ templates = <<>>
  /\ helpers = DefaultHelpers
  /\ compiled = Closure(NoFn, DefaultHelpers)
  /\ last = [op |-> "new", args |-> <<>>]
  /\ ret = Returned(Undef)

RegisterTemplate(name, tpl) ==
  /\ templates' = MapSet(templates, name, tpl)
  /\ last' = [op |-> "registerTemplate", args |-> <<name, tpl>>]
  /\ ret' = Returned(Undef)
  /\ UNCHANGED <<helpers, compiled>>

RegisterHelper(name, fn) ==
  /\ helpers' = (name :> fn) @@ helpers
  /\ last' = [op |-> "registerHelper", args |-> <<name, fn>>]
  /\ ret' = Returned(Undef)
  /\ UNCHANGED <<templates, compiled>>

GetTemplate(name) ==
  /\ last' = [op |-> "getTemplate", args |-> <<name>>]
  /\ ret' = Returned(MapGet(templates, name))
  /\ UNCHANGED <<templates, helpers, compiled>>

GetTemplateNames ==
  /\ last' = [op |-> "getTemplateNames", args |-> <<>>]
  /\ ret' = Returned(Arr([i \in 1..Len(templates) |->
                            Str(getTemplateNames(templates)[i])]))
  /\ UNCHANGED <<templates, helpers, compiled>>

Render(templateName, data) ==
  /\ last' = [op |-> "render", args |-> <<templateName, data>>]
  /\ ret' = render(templateName, data)
  /\ UNCHANGED <<templates, helpers, compiled>>

Compile(templateString) ==
  /\ compiled' = Closure(templateString, helpers)
  /\ last' = [op |-> "compile", args |-> <<templateString>>]
  /\ ret' = Returned(Undef)
  /\ UNCHANGED <<templates, helpers>>

CallCompiled(data) ==
  /\ compiled.templateString # NoFn
  /\ last' = [op |-> "call", args |-> <<compiled.templateString, data>>]
  /\ ret' = CallCompiledFn(compiled.templateString, data)
  /\ UNCHANGED <<templates, helpers, compiled>>

Next ==
  \/ \E r \in TemplateRegs : RegisterTemplate(r[1], r[2])
  \/ \E r \in HelperRegs : RegisterHelper(r[1], r[2])
  \/ \E name \in TemplateNames : GetTemplate(name)
  \/ GetTemplateNames
  \/ \E t \in CallTemplates, d \in CallData : Render(t, d)
  \/ \E t \in CompileTemplates : Compile(t)
  \/ \E d \in CallData : CallCompiled(d)

Spec == Init /\ [][Next]_vars

-----------------------------------------------------------------------------
(* One evaluation on a freshly constructed evaluator: the caller holds a   *)
(* raw template and a data context, and either renders them or compiles    *)
(* the template and calls the function.                                    *)

InitEval ==
  /\ templates = <<>>
  /\ helpers = DefaultHelpers
  /\ compiled = Closure(NoFn, DefaultHelpers)
  /\ \E t \in RawTemplates, d \in DataSet : last = [op |-> "new", args |-> <<t, d>>]
  /\ ret = Returned(Undef)

RenderGiven ==
  /\ last.op = "new"
  /\ Render(last.args[1], last.args[2])

CompileGiven ==
  /\ last.op = "new"
  /\ compiled' = Closure(last.args[1], helpers)
  /\ last' = [op |-> "compile", args |-> last.args]
  /\ ret' = Returned(Undef)
  /\ UNCHANGED <<templates, helpers>>

CallGiven ==
  /\ last.op = "compile"
  /\ last' = [op |-> "call", args |-> last.args]
  /\ ret' = CallCompiledFn(compiled.templateString, last.args[2])
  /\ UNCHANGED <<templates, helpers, compiled>>

NextEval == RenderGiven \/ CompileGiven \/ CallGiven

SpecEval == InitEval /\ [][NextEval]_vars

-----------------------------------------------------------------------------
(* Properties.  A state after render or after a call of a compiled         *)
(* function holds the arguments in last.args and the outcome in ret.       *)

Evaluated == last.op \in {"render", "call"}
ArgTemplate == last.args[1]
ArgData == last.args[2]

\* The same string returned, or the same exception thrown.
SameResult(r1, r2) == r1.out = r2.out /\ r1.err = r2.err

\* The lexemes of a given kind in a text.
LexCount(template, k) ==
  Cardinality({i \in 1..Len(template) : template[i].k = k})

\* Text without any double-brace construct.
IsPlainText(text) == \A i \in 1..Len(text) : text[i].k = "txt"

RECURSIVE MarkupFree(_)
\* A data value none of whose strings holds a double-brace construct.
MarkupFree(v) ==
  CASE v.t = "str" -> IsPlainText(v.s)
    [] v.t = "arr" -> \A i \in 1..Len(v.a) : MarkupFree(v.a[i])
    [] v.t = "obj" -> \A k \in DOMAIN v.o : MarkupFree(v.o[k])
    [] OTHER -> TRUE

\* The markup string a registered template value carries.
C1_Markup(tpl) == IF tpl.t = "str" THEN tpl.s ELSE tpl.o["html"].s

\* C1: render(name, data) evaluates the markup of the template registered
\* under name, whatever value was registered (a markup string, an empty
\* one included, or an object with the markup under html), and evaluates
\* the argument itself when it is no registered name.
C1_RenderUsesRegisteredMarkup ==
  last.op = "render" =>
    IF MapHas(templates, ArgTemplate)
    THEN SameResult(ret,
           processTemplate(C1_Markup(MapGet(templates, ArgTemplate)), ArgData, 0))
    ELSE SameResult(ret, processTemplate(ArgTemplate, ArgData, 0))

\* C2: render never throws because of missing data: for a template
\* without helper calls and data in which referenced paths are absent or
\* null at any depth (a null root, a scalar in the middle of a path, null
\* or scalar elements of a looped sequence), a string is returned.
C2_NeverThrowsForMissingData ==
  (Evaluated /\ LexCount(ArgTemplate, "call") = 0 /\ MarkupFree(ArgData))
    => ret.err = ""

\* C3: render and every compiled function run to completion for every
\* template and every data context: the recursion of processTemplate
\* through processLoops and processConditionals ends and a result is
\* returned; the call stack is never exhausted.
C3_RecursionEnds == Evaluated => ret.err # "RangeError"

\* What the nested-loop template is to render for a sequence of jobs:
\* per job its title, then its achievements one by one, then the text that
\* follows the inner loop.
C4_Expected(jobs) ==
  Concat([i \in 1..Len(jobs) |->
    jobs[i].o["title"].s \o <<Txt(":")>>
    \o Concat([j \in 1..Len(jobs[i].o["achievements"].a) |->
         jobs[i].o["achievements"].a[j].s \o <<Txt(";")>>])
    \o <<Txt("|")>>])

\* A sequence of jobs, each with a title and a sequence of achievements.
C4_IsJobs(v) ==
  /\ v.t = "arr"
  /\ \A i \in 1..Len(v.a) :
       /\ v.a[i].t = "obj"
       /\ {"title", "achievements"} \subseteq DOMAIN v.a[i].o
       /\ v.a[i].o["title"].t = "str"
       /\ v.a[i].o["achievements"].t = "arr"
       /\ \A j \in 1..Len(v.a[i].o["achievements"].a) :
            v.a[i].o["achievements"].a[j].t = "str"

\* C4: loops nest inside a loop body: the outer region extends to its own
\* closing marker, and for each outer item the inner loop is expanded over
\* the sequence resolved in that iteration's scope, {{this}} of the inner
\* body bound to the inner items.
C4_LoopsNest ==
  (Evaluated /\ ArgTemplate = NestedLoops
     /\ C4_IsJobs(getValueByPath(ArgData, <<"items">>)))
    => /\ ret.err = ""
       /\ ret.out = C4_Expected(getValueByPath(ArgData, <<"items">>).a)

\* A template that is one conditional block: {{#if path}} first, {{/if}}
\* last, no other conditional marker in between but at most one {{else}}.
C5_IsOneBlock(t) ==
  /\ Len(t) >= 2
  /\ t[1].k = "if" /\ t[Len(t)].k = "/if"
  /\ LexCount(t, "if") = 1 /\ LexCount(t, "/if") = 1
  /\ LexCount(t, "else") <= 1

\* The values the claim lists as selecting the else branch.
C5_Falsy == {Bool(FALSE), Num(0), Str(<<>>), Null, Undef}

\* What a one-block template is to render: the pipeline-processed then
\* branch for a truthy value, else the pipeline-processed else branch,
\* the empty string when there is none.
C5_Expected(t, data) ==
  LET e == FirstLex(t, "else", 1)
      x == SubSeq(t, 2, (IF e = 0 THEN Len(t) ELSE e) - 1)
      y == IF e = 0 THEN <<>> ELSE SubSeq(t, e + 1, Len(t) - 1)
  IN IF getValueByPath(data, t[1].p) \in C5_Falsy
     THEN IF e = 0 THEN Ok(<<>>) ELSE processTemplate(y, data, 0)
     ELSE processTemplate(x, data, 0)

\* C5: a template that is one conditional block renders, for a path that
\* resolves to false, 0, "", null or undefined, the empty string (bare
\* form) or the pipeline-processed else branch, and for every other value
\* the pipeline-processed then branch, against the same context.
C5_ConditionalSelectsBranch ==
  (Evaluated /\ C5_IsOneBlock(ArgTemplate))
    => SameResult(ret, C5_Expected(ArgTemplate, ArgData))

\* The first loop region of a template, as the loop pattern delimits it:
\* the leftmost {{#each}} and the first {{/each}} after it.
RegionStart(t) == FirstLex(t, "each", 1)
RegionEnd(t) ==
  IF RegionStart(t) = 0 THEN 0 ELSE FirstLex(t, "/each", RegionStart(t) + 1)
HasRegion(t) == RegionEnd(t) # 0
RegionPath(t) == t[RegionStart(t)].p
RegionBody(t) == SubSeq(t, RegionStart(t) + 1, RegionEnd(t) - 1)
BeforeRegion(t) == SubSeq(t, 1, RegionStart(t) - 1)
AfterRegion(t) == SubSeq(t, RegionEnd(t) + 1, Len(t))

C7_OneLoop(t) ==
  HasRegion(t) /\ LexCount(t, "each") = 1 /\ LexCount(t, "/each") = 1

\* The loop scopes of the processTemplate calls the top-level loop made.
C7_Direct == SelectSeq(ret.log, LAMBDA e : e.ev = "scope" /\ e.depth = 1)

\* C7: for a loop over a sequence of length n the inner pipeline is
\* invoked exactly n times, once per element in order, the i-th scope
\* having index i (from 0), first = (i = 0) and last = (i = n - 1); for
\* n = 0 it is not invoked and the region renders empty.
C7_InvokedOncePerElement ==
  (Evaluated /\ C7_OneLoop(ArgTemplate)
     /\ getValueByPath(ArgData, RegionPath(ArgTemplate)).t = "arr")
    => LET items == getValueByPath(ArgData, RegionPath(ArgTemplate)).a
       IN /\ Len(C7_Direct) = Len(items)
          /\ \A i \in 1..Len(C7_Direct) :
               /\ C7_Direct[i].index = i - 1
               /\ C7_Direct[i].first = (i = 1)
               /\ C7_Direct[i].last = (i = Len(items))
               /\ C7_Direct[i].item = items[i]
          /\ (items = <<>> =>
                SameResult(ret, processTemplate(
                  BeforeRegion(ArgTemplate) \o AfterRegion(ArgTemplate),
                  ArgData, 0)))

\* The rendering of the body for element idx: the current-item
\* references substituted, then the pipeline run in that element's scope.
C8_Element(body, data, items, idx) ==
  LET c1 == SubstThisProp(body, items[idx])
  IN IF c1.err # "" THEN c1
     ELSE processTemplate(SubstThis(c1.out, items[idx]),
                          LoopScope(data, items[idx], idx - 1, Len(items)), 1)

\* C8: the output of a loop region is the concatenation, in sequence
\* order and without separator, of the per-element renderings of the
\* body; it replaces exactly the region, the text before and after being
\* kept, so that a result without constructs is what render returns
\* (body {{this}}, over [1, 2, 3] yields 1,2,3,).
C8_LoopOutputIsConcatenation ==
  (Evaluated /\ C7_OneLoop(ArgTemplate)
     /\ getValueByPath(ArgData, RegionPath(ArgTemplate)).t = "arr")
    => LET t == ArgTemplate
           items == getValueByPath(ArgData, RegionPath(t)).a
           rs == [idx \in 1..Len(items) |->
                    C8_Element(RegionBody(t), ArgData, items, idx)]
           whole == BeforeRegion(t)
                    \o Concat([idx \in 1..Len(items) |-> rs[idx].out])
                    \o AfterRegion(t)
           loops == processLoops(t, ArgData, 0)
       IN /\ loops.err = "" /\ loops.out = whole
          /\ IsPlainText(whole) => (ret.err = "" /\ ret.out = whole)

\* The text the claim gives for a resolved value: nothing for null and
\* undefined, the JSON text for a mapping or sequence, the plain string
\* conversion otherwise.
C9_Text(v) ==
  CASE v.t \in {"undef", "null"} -> <<>>
    [] v.t = "str" -> v.s
    [] v = Bool(FALSE) -> Lit(<<"f", "a", "l", "s", "e">>)
    [] v = Bool(TRUE) -> Lit(<<"t", "r", "u", "e">>)
    [] v.t = "num" /\ v.n < 10 -> <<Txt(ToString(v.n))>>
    [] v.t = "arr" /\ (\A i \in 1..Len(v.a) : v.a[i].t = "num" /\ v.a[i].n < 10) ->
         <<Txt("[")>>
         \o JoinWith([i \in 1..Len(v.a) |-> <<Txt(ToString(v.a[i].n))>>],
                     <<Txt(",")>>)
         \o <<Txt("]")>>
    [] v = Obj(NoProps) -> Lit(<<"{", "}">>)
    [] v = Obj([title |-> Ada]) ->
         <<Txt("{"), Txt("\""), Txt("title"), Txt("\""), Txt(":"), Txt("\""),
           Txt("A"), Txt("d"), Txt("a"), Txt("\""), Txt("}")>>
    [] OTHER -> Json(v)

\* A template of literal text and variable references only.
C9_OnlyRefs(t) ==
  /\ \A i \in 1..Len(t) : t[i].k \in {"txt", "var"}
  /\ \E i \in 1..Len(t) : t[i].k = "var"

\* C9: variable substitution replaces every double-brace dotted reference
\* by the empty string when the path resolves to null or undefined, by
\* the JSON serialization when it resolves to a mapping or sequence, and
\* by the plain string conversion otherwise (0 and false render as 0 and
\* false).
C9_VariableSubstitution ==
  (Evaluated /\ C9_OnlyRefs(ArgTemplate))
    => /\ ret.err = ""
       /\ ret.out = Concat([i \in 1..Len(ArgTemplate) |->
            IF ArgTemplate[i].k = "var"
            THEN C9_Text(getValueByPath(ArgData, ArgTemplate[i].p))
            ELSE <<ArgTemplate[i]>>])

\* C9 witness: {{name}} with name = 0 has rendered 0.
C9_Witness ==
  /\ Evaluated
  /\ ArgTemplate = <<Var(<<"name">>)>>
  /\ getValueByPath(ArgData, <<"name">>) = Num(0)
  /\ ret.out = <<Txt("0")>>

\* The markup the evaluation ran on.
C10_Markup ==
  IF last.op = "render" THEN RenderMarkup(templates, ArgTemplate)
  ELSE Str(ArgTemplate)

\* Markup of literal text and helper calls, none of them to a helper of
\* the registry.
C10_OnlyUnknownCalls(m) ==
  /\ \A i \in 1..Len(m) :
       m[i].k = "txt" \/ (m[i].k = "call" /\ m[i].s \notin DOMAIN helpers)
  /\ \E i \in 1..Len(m) : m[i].k = "call"

\* C10: a construct {{name arg ...}} whose identifier is not in the helper
\* registry at render time is left in the output unmodified, neither
\* blanked nor an error, for every data context and argument text.
C10_UnknownHelperKept ==
  (Evaluated /\ C10_Markup.t = "str" /\ C10_OnlyUnknownCalls(C10_Markup.s))
    => ret.err = "" /\ ret.out = C10_Markup.s

\* C10 witness: {{shout name}} was rendered while no helper shout was
\* registered, and came out as written.
C10_Witness ==
  /\ Evaluated
  /\ ArgTemplate = <<ShoutCall>>
  /\ "shout" \notin DOMAIN helpers
  /\ ret.out = <<ShoutCall>> /\ ret.err = ""

\* The helper invocations of the evaluation, in the order they were made.
Invocations == SelectSeq(ret.log, LAMBDA e : e.ev = "call")

\* A token that is one bare word (no quotes in it).
C11_IsBare(part) == Len(part) = 1 /\ part[1].c = "w"

\* The value the claim gives a bare token: a boolean for true / false, a
\* number for a numeric-looking token, else what the dotted path resolves
\* to in the context.
C11_Classified(word, data) ==
  CASE word.cls = "true" -> Bool(TRUE)
    [] word.cls = "false" -> Bool(FALSE)
    [] word.cls = "num" -> Num(word.n)
    [] OTHER -> getValueByPath(data, word.p)

\* C11: each bare token of a helper call's argument list becomes a boolean
\* (true / false), a number (numeric-looking) or else the value its dotted
\* path resolves to in the current context, absent included, and the
\* helper is invoked with these values positionally, in token order; a
\* numeric-looking token is never looked up as a data path.
C11_ArgumentsClassified ==
  Evaluated =>
    \A k \in 1..Len(Invocations) :
      LET e == Invocations[k]
          parts == SplitArgs(e.text, 1)
      IN /\ Len(e.args) = Len(parts)
         /\ \A i \in 1..Len(parts) :
              C11_IsBare(parts[i])
                => e.args[i] = C11_Classified(parts[i][1], e.data)
         /\ (ArgTemplate = <<Call(e.name, e.text)>>
               /\ \A i \in 1..Len(parts) : C11_IsBare(parts[i]))
              => LET r == ApplyHelper(e.fn,
                            [i \in 1..Len(parts) |->
                               C11_Classified(parts[i][1], ArgData)])
                 IN ret.err = r.err /\ (r.err = "" => ret.out = ToStr(r.v))

\* C11 witness: {{if flag 5 name}} was rendered against data that has a
\* property named 5 and a truthy flag; the helper got the number 5 and the
\* output is 5.
C11_Witness ==
  /\ Evaluated
  /\ ArgTemplate = <<Call("if", <<WFlag, Space, WNum(5), Space, WName>>)>>
  /\ GetProp(ArgData, "5") = Str(Lit(<<"x">>))
  /\ Len(Invocations) = 1
  /\ Invocations[1].args = <<Bool(TRUE), Num(5), Ada>>
  /\ ret.out = <<Txt("5")>>

RECURSIVE C12_Split(_, _, _, _)
\* The argument text split on whitespace, whitespace between an opening
\* and a closing double quote not separating: cur is the token being
\* read, inQuote whether a span is open.
C12_Split(atoms, i, inQuote, cur) ==
  IF i > Len(atoms) THEN (IF cur = <<>> THEN <<>> ELSE <<cur>>)
  ELSE IF atoms[i].c = "sp" /\ ~inQuote
    THEN (IF cur = <<>> THEN <<>> ELSE <<cur>>)
         \o C12_Split(atoms, i + 1, FALSE, <<>>)
  ELSE C12_Split(atoms, i + 1,
                 IF atoms[i].c = "q" THEN ~inQuote ELSE inQuote,
                 Append(cur, atoms[i]))

\* Every double quote of the text opens or closes a span.
C12_QuotesPaired(atoms) ==
  Cardinality({i \in 1..Len(atoms) : atoms[i].c = "q"}) % 2 = 0

\* A token that is one double-quoted span.
C12_IsSpan(piece) ==
  /\ Len(piece) >= 2
  /\ piece[1].c = "q" /\ piece[Len(piece)].c = "q"
  /\ \A i \in 2..(Len(piece) - 1) : piece[i].c # "q"

\* {{join items " | "}}
C12_JoinCall ==
  Call("join", <<WItems, Space, Quote, Space, WBar, Space, Quote>>)

\* C12: the argument text of a helper call is split on whitespace with
\* each double-quoted span, one that holds whitespace included, kept as one
\* token, whose value is the span without its quotes;
\* {{join skills " | "}} passes " | " as one argument and renders
\* Go | Rust for [Go, Rust].
C12_QuotedSpanIsOneToken ==
  Evaluated =>
    /\ \A k \in 1..Len(Invocations) :
         LET e == Invocations[k]
             pieces == C12_Split(e.text, 1, FALSE, <<>>)
         IN C12_QuotesPaired(e.text)
              => /\ Len(e.args) = Len(pieces)
                 /\ \A i \in 1..Len(pieces) :
                      C12_IsSpan(pieces[i])
                        => e.args[i] = Str(Lit(Concat(
                             [j \in 1..(Len(pieces[i]) - 2) |->
                                pieces[i][j + 1].s])))
    /\ (ArgTemplate = <<C12_JoinCall>>
          /\ getValueByPath(ArgData, <<"items">>) = Arr(<<Go, Rust>>))
         => /\ ret.err = ""
            /\ ret.out = Lit(<<"G", "o", " ", "|", " ", "R", "u", "s", "t">>)

\* C12 witness: {{join items " | "}} over [Go, Rust] passed the separator
\* " | " as the second of two arguments and rendered Go | Rust.
C12_Witness ==
  /\ Evaluated
  /\ ArgTemplate = <<C12_JoinCall>>
  /\ Len(Invocations) = 1
  /\ Invocations[1].args = <<Arr(<<Go, Rust>>), Str(Lit(<<" ", "|", " ">>))>>
  /\ ret.out = Lit(<<"G", "o", " ", "|", " ", "R", "u", "s", "t">>)

\* C13: helper lookup happens at each render, not at compile or
\* registration time: a call of a compiled function, and a render, invoke
\* for {{h ...}} the function the registry holds under h at that time,
\* the one registered most recently before the call, whatever was
\* registered when compile ran.
C13_LateBinding ==
  Evaluated =>
    /\ \A k \in 1..Len(Invocations) :
         /\ Invocations[k].name \in DOMAIN helpers
         /\ Invocations[k].fn = helpers[Invocations[k].name]
    /\ (ArgTemplate = <<ShoutCall>> /\ "shout" \in DOMAIN helpers)
         => /\ ret.err = ""
            /\ ret.out = IF helpers["shout"] = "constA" THEN <<Txt("A")>>
                          ELSE <<Txt("B")>>

\* C13 witness: {{shout name}} was compiled while shout was the first
\* function, shout was registered again, and the call of the compiled
\* function invoked the second function.
C13_Witness ==
  /\ last.op = "call"
  /\ ArgTemplate = <<ShoutCall>>
  /\ "shout" \in DOMAIN compiled.helpersThen
  /\ compiled.helpersThen["shout"] = "constA"
  /\ helpers["shout"] = "constB"
  /\ Len(Invocations) = 1 /\ Invocations[1].fn = "constB"
  /\ ret.out = <<Txt("B")>>

\* C14: round trip: in any evaluator state, for a template string t that
\* is not a registered template name and any data d, compile(t)(d) and
\* render(t, d) give the identical result, the same string or the same
\* exception.
C14_CompileRenderRoundTrip ==
  (Evaluated /\ ~MapHas(templates, ArgTemplate))
    => /\ SameResult(render(ArgTemplate, ArgData),
                     CallCompiledFn(ArgTemplate, ArgData))
       /\ SameResult(ret, render(ArgTemplate, ArgData))
       /\ SameResult(ret, CallCompiledFn(ArgTemplate, ArgData))

\* C14 witness: with templates registered under other names, a compiled
\* loop over [1, 2] with a helper call in its body returned 1A2A, shout
\* being registered.
C14_Witness ==
  /\ last.op = "call"
  /\ templates # <<>> /\ ~MapHas(templates, ArgTemplate)
  /\ ArgTemplate = LoopBlock(<<"items">>, <<Var(<<"this">>), ShoutCall>>)
  /\ ret.out = <<Txt("1"), Txt("A"), Txt("2"), Txt("A")>>
  /\ SameResult(ret, render(ArgTemplate, ArgData))

\* How often a name stands in the list of template names.
C15_Occurrences(map, name) ==
  Cardinality({i \in 1..Len(map) : getTemplateNames(map)[i] = name})

\* C15: last write wins in both registries.  No template is registered
\* at first; registerTemplate(name, v) makes v what getTemplate(name)
\* returns and leaves every other name as it was, no other operation
\* changes what a name gives, so getTemplate returns the value of the most
\* recent registerTemplate; every registered name stands exactly once in
\* the list of names; registerHelper(name, f) makes f the function under
\* name, a default helper's name included, leaves the other helpers, and a
\* helper call invokes the function most recently registered.
C15_LastWriteWins ==
  /\ \A n \in TemplateNames : MapGet(templates, n) = Undef
  /\ [][/\ last'.op = "registerTemplate"
            => /\ MapGet(templates', last'.args[1]) = last'.args[2]
               /\ \A n \in TemplateNames \ {last'.args[1]} :
                    MapGet(templates', n) = MapGet(templates, n)
        /\ last'.op # "registerTemplate"
            => \A n \in TemplateNames : MapGet(templates', n) = MapGet(templates, n)
        /\ last'.op = "getTemplate"
            => ret'.v = MapGet(templates, last'.args[1])
        /\ \A n \in TemplateNames :
             C15_Occurrences(templates', n)
               = IF MapHas(templates, n)
                    \/ (last'.op = "registerTemplate" /\ last'.args[1] = n)
                 THEN 1 ELSE 0
        /\ last'.op = "getTemplateNames"
            => /\ Len(ret'.v.a) = Len(templates)
               /\ \A n \in TemplateNames :
                    Cardinality({i \in 1..Len(ret'.v.a) : ret'.v.a[i] = Str(n)})
                      = C15_Occurrences(templates, n)
        /\ last'.op = "registerHelper"
            => /\ DOMAIN helpers' = DOMAIN helpers \cup {last'.args[1]}
               /\ helpers'[last'.args[1]] = last'.args[2]
               /\ \A h \in DOMAIN helpers \ {last'.args[1]} :
                    helpers'[h] = helpers[h]
        /\ last'.op # "registerHelper" => helpers' = helpers
        /\ last'.op \in {"render", "call"}
            => \A k \in 1..Len(ret'.log) :
                 ret'.log[k].ev = "call"
                   => /\ ret'.log[k].name \in DOMAIN helpers
                      /\ ret'.log[k].fn = helpers[ret'.log[k].name]
       ]_vars

\* C15 witness: shout was registered as one function and later as
\* another, capitalize was replaced, both template names are registered,
\* and a render of {{shout name}} invoked the later function.
C15_Witness ==
  /\ last.op = "render"
  /\ ArgTemplate = <<ShoutCall>>
  /\ "shout" \in DOMAIN compiled.helpersThen
  /\ compiled.helpersThen["shout"] = "constA"
  /\ helpers["shout"] = "constB"
  /\ helpers["capitalize"] = "boom"
  /\ \A n \in TemplateNames : C15_Occurrences(templates, n) = 1
  /\ ret.out = <<Txt("B")>>

\* The loop scopes built during the evaluation, at any depth.
Scopes == SelectSeq(ret.log, LAMBDA e : e.ev = "scope")

\* The names a loop binds in the scope of an iteration.
LoopBindings == {"this", "@index", "@first", "@last"}

\* C16: the data context passed to render or to a compiled function is
\* never mutated (default helpers): the object every loop was given is,
\* after each iteration's scope is built, what it was before; the caller's
\* object is what the top-level loops were given and what every top-level
\* helper call reads; each iteration works on a fresh copy that has the
\* properties of that object and the loop bindings, and the bindings are
\* not written into the caller's object.
C16_DataNotMutated ==
  Evaluated =>
    /\ \A k \in 1..Len(Scopes) :
         LET e == Scopes[k]
         IN /\ e.after = e.given
            /\ e.depth = 1 => e.given = ArgData
            /\ DOMAIN e.data.o = DOMAIN e.given.o \cup LoopBindings
            /\ \A key \in DOMAIN e.given.o \ LoopBindings :
                 e.data.o[key] = e.given.o[key]
            /\ e.data.o["this"] = e.item
            /\ e.data.o["@index"] = Num(e.index)
    /\ (Scopes = <<>> =>
          \A k \in 1..Len(Invocations) : Invocations[k].data = ArgData)

\* C16 witness: a loop over [1, 2] has run; the second scope binds this
\* to 2 while the caller's object, as it is after that, has no property
\* this.
C16_Witness ==
  /\ Evaluated
  /\ Len(C7_Direct) = 2
  /\ ArgData.t = "obj" /\ "this" \notin DOMAIN ArgData.o
  /\ C7_Direct[2].data.o["this"] = Num(2)
  /\ C7_Direct[2].after = ArgData
  /\ ret.err = ""

\* C17: the evaluator does not catch helper exceptions: when a helper
\* invoked during a render or a call of a compiled function throws, at top
\* level, in a loop body or in a conditional branch, that exception is the
\* outcome, no partial output is returned, and nothing is done after the
\* throw: no helper is invoked again and no further loop scope is built.
C17_HelperExceptionPropagates ==
  Evaluated =>
    \A k \in 1..Len(ret.log) :
      (ret.log[k].ev = "call" /\ ret.log[k].err # "")
        => /\ ret.err = ret.log[k].err
           /\ ret.out = <<>>
           /\ k = Len(ret.log)

\* C17 witness: capitalize was replaced by a function that throws and a
\* loop over [1, 2] with x{{capitalize b}} in its body was rendered: the
\* helper was invoked once, in the first iteration, and render threw.
C17_Witness ==
  /\ last.op = "render"
  /\ ArgTemplate = LoopBlock(<<"items">>, <<Txt("x"), CapitalizeCall>>)
  /\ getValueByPath(ArgData, <<"items">>) = Numbers(2)
  /\ helpers["capitalize"] = "boom"
  /\ Len(Scopes) = 1 /\ Len(Invocations) = 1
  /\ ret.err = "Error" /\ ret.out = <<>>

\* The first opening and the last closing block marker of a template,
\* 0 when it has none.
C18_FirstOpener(t) ==
  IF \E i \in 1..Len(t) : t[i].k \in {"each", "if"}
  THEN CHOOSE i \in 1..Len(t) :
         t[i].k \in {"each", "if"}
         /\ \A j \in 1..(i - 1) : t[j].k \notin {"each", "if"}
  ELSE 0
C18_LastCloser(t) ==
  IF \E i \in 1..Len(t) : t[i].k \in {"/each", "/if"}
  THEN CHOOSE i \in 1..Len(t) :
         t[i].k \in {"/each", "/if"}
         /\ \A j \in (i + 1)..Len(t) : t[j].k \notin {"/each", "/if"}
  ELSE 0

\* Every closing marker stands before every opening marker: none of them
\* belongs to a block.
C18_AllDangling(t) ==
  C18_FirstOpener(t) = 0 \/ C18_LastCloser(t) < C18_FirstOpener(t)

\* One well-formed block, without markers in its body, stands between the
\* first opening and the last closing marker; the markers before it are
\* closing ones and those after it opening ones.
C18_OneBlock(t) ==
  LET i == C18_FirstOpener(t)
      j == C18_LastCloser(t)
  IN /\ 0 < i /\ i < j
     /\ <<t[i].k, t[j].k>> \in {<<"each", "/each">>, <<"if", "/if">>}
     /\ \A m \in (i + 1)..(j - 1) :
          t[m].k \notin {"each", "/each", "if", "/if", "else"}

\* The markers outside the block, if any: they have no partner.
C18_Dangling(t) ==
  {m \in 1..Len(t) :
     /\ t[m].k \in {"each", "/each", "if", "/if"}
     /\ C18_OneBlock(t) => (m < C18_FirstOpener(t) \/ m > C18_LastCloser(t))}

\* Text around the block as the claim has it come out: markers verbatim,
\* references evaluated.
C18_Around(seg, data) ==
  Concat([m \in 1..Len(seg) |->
            IF seg[m].k \in {"var", "else"} THEN VarText(seg[m], data)
            ELSE <<seg[m]>>])

\* What the claim has such a template render.
C18_Expected(t, data) ==
  IF C18_AllDangling(t) THEN Ok(C18_Around(t, data))
  ELSE LET i == C18_FirstOpener(t)
           j == C18_LastCloser(t)
           mid == processTemplate(SubSeq(t, i, j), data, 0)
       IN IF mid.err # "" THEN mid
          ELSE Ok(C18_Around(SubSeq(t, 1, i - 1), data) \o mid.out
                  \o C18_Around(SubSeq(t, j + 1, Len(t)), data))

\* C18: malformed or unterminated block markers are never reported as
\* errors: an opening loop or conditional marker with no closing marker
\* after it and a closing marker with no opening marker before it match
\* no block pattern, are left as they are by the variable and helper
\* passes and come out verbatim, while the well-formed constructs around
\* them (references, a loop or conditional block) are evaluated as they
\* are without the markers.
C18_MalformedMarkersVerbatim ==
  (Evaluated /\ LexCount(ArgTemplate, "call") = 0
     /\ (C18_AllDangling(ArgTemplate) \/ C18_OneBlock(ArgTemplate))
     /\ C18_Dangling(ArgTemplate) # {})
    => /\ SameResult(ret, C18_Expected(ArgTemplate, ArgData))
       /\ C18_AllDangling(ArgTemplate) => ret.err = ""

\* C18 witness: {{/each}}{{name}}{{/if}}, a loop over [1, 2] and
\* {{#if flag}}{{b}}{{#each items}} were rendered: the four markers came
\* out as written around Ada, 1,2, and v.
C18_Witness ==
  /\ Evaluated
  /\ ArgTemplate = <<EndEach, Var(<<"name">>), EndIf>>
                    \o LoopBlock(<<"items">>, <<Var(<<"this">>), Txt(",")>>)
                    \o <<If(<<"flag">>), Var(<<"b">>), Each(<<"items">>)>>
  /\ ret.err = ""
  /\ ret.out = <<EndEach, Txt("A"), Txt("d"), Txt("a"), EndIf,
                 Txt("1"), Txt(","), Txt("2"), Txt(","),
                 If(<<"flag">>), Txt("v"), Each(<<"items">>)>>

\* The names of the default helper set.
C19_Names == {"formatDate", "capitalize", "join", "truncate", "if"}

\* C19: the default helper set ships pre-registered: right after
\* construction the registry holds formatDate, capitalize, join, truncate
\* and if, each bound to its own function, and in every state reachable
\* by the public operations, which overwrite but never remove entries,
\* it has an entry for each of the five.
C19_DefaultHelpersPresent ==
  /\ C19_Names \subseteq DOMAIN helpers
  /\ last.op = "new" => \A h \in C19_Names : helpers[h] = h

\* C19 witness: a helper was added, capitalize was overwritten, templates
\* were registered and a function compiled; the five names are there.
C19_Witness ==
  /\ C19_Names \subseteq DOMAIN helpers
  /\ "shout" \in DOMAIN helpers
  /\ helpers["capitalize"] = "boom"
  /\ templates # <<>>
  /\ compiled.templateString # NoFn
  /\ last.op = "render" /\ ArgTemplate = <<CapitalizeCall>>
  /\ ret.err = "Error"

\* The invocations of the truncate helper on a string or on nothing, with
\* a number or nothing as the limit.
C20_Calls ==
  SelectSeq(Invocations,
            LAMBDA e : /\ e.fn = "truncate"
                       /\ Arg(e.args, 1).t \in {"str", "undef"}
                       /\ Arg(e.args, 2).t \in {"num", "undef"})

\* The limit of an invocation: 100 when the argument is omitted.
C20_Limit(e) == IF Arg(e.args, 2).t = "num" THEN Arg(e.args, 2).n ELSE 100

\* What the claim says of one invocation of truncate with limit L.
C20_Truncated(e, L) ==
  LET s == Arg(e.args, 1)
  IN /\ e.err = "" /\ e.v.t = "str"
     /\ (s.t = "undef" \/ s.s = <<>>) => e.v.s = <<>>
     /\ (s.t = "str" /\ s.s # <<>> /\ Len(s.s) <= L) => e.v = s
     /\ (s.t = "str" /\ s.s # <<>> /\ Len(s.s) > L)
          => /\ e.v.s = SubSeq(s.s, 1, L) \o Lit(<<".", ".", ".">>)
             /\ Len(e.v.s) = L + 3
     /\ Len(e.v.s) <= L + 3
     /\ ArgTemplate = <<Call(e.name, e.text)>>
          => ret.err = "" /\ ret.out = e.v.s

\* C20 as stated: truncate, for a string s and any integer limit L (100
\* when omitted), returns '' for an empty or absent s, s when its length
\* is at or under L, else the first L characters followed by ..., a result
\* of at most L + 3 characters.
C20_TruncateAnyLimit ==
  Evaluated =>
    \A k \in 1..Len(C20_Calls) : C20_Truncated(C20_Calls[k], C20_Limit(C20_Calls[k]))

\* C20 amended: the same for a limit L that is not negative.
C20_TruncateNonNegativeLimit ==
  Evaluated =>
    \A k \in 1..Len(C20_Calls) :
      C20_Limit(C20_Calls[k]) >= 0
        => C20_Truncated(C20_Calls[k], C20_Limit(C20_Calls[k]))

\* C20 witness: {{truncate name 5}} with name = Hello World rendered
\* Hello... .
C20_Witness ==
  /\ Evaluated
  /\ ArgTemplate = <<Call("truncate", <<WName, Space, WNum(5)>>)>>
  /\ getValueByPath(ArgData, <<"name">>) = HelloWorld
  /\ ret.out = Lit(<<"H", "e", "l", "l", "o", ".", ".", ".">>)

\* The invocations of the join helper.
C21_Calls == SelectSeq(Invocations, LAMBDA e : e.fn = "join")

RECURSIVE C21_Joined(_, _, _)
\* The first n elements of a sequence, each as text (nothing for a null or
\* absent element), in order, with the separator between neighbours.
C21_Joined(elems, n, sep) ==
  IF n = 0 THEN <<>>
  ELSE LET text == IF elems[n].t \in {"undef", "null"} THEN <<>>
                   ELSE ToStr(elems[n])
       IN IF n = 1 THEN text
          ELSE C21_Joined(elems, n - 1, sep) \o sep \o text

\* C21: the join helper returns the empty string for every first argument
\* that is not a sequence (absent, null, a scalar, a mapping), and else
\* the elements joined in order with the separator argument, which is
\* `, ` when omitted; an empty sequence yields the empty string.
C21_JoinHelper ==
  Evaluated =>
    \A k \in 1..Len(C21_Calls) :
      LET e == C21_Calls[k]
          first == Arg(e.args, 1)
          sep == IF Arg(e.args, 2) = Undef THEN Lit(<<",", " ">>)
                 ELSE ToStr(e.args[2])
      IN /\ e.err = "" /\ e.v.t = "str"
         /\ first.t # "arr" => e.v.s = <<>>
         /\ first.t = "arr"
              => e.v.s = C21_Joined(first.a, Len(first.a), sep)
         /\ first = Arr(<<>>) => e.v.s = <<>>
         /\ ArgTemplate = <<Call(e.name, e.text)>>
              => ret.err = "" /\ ret.out = e.v.s

\* C21 witness: {{join items}} over [Go, Rust] rendered Go, Rust.
C21_Witness ==
  /\ Evaluated
  /\ ArgTemplate = <<Call("join", <<WItems>>)>>
  /\ getValueByPath(ArgData, <<"items">>) = Arr(<<Go, Rust>>)
  /\ ret.out = Lit(<<"G", "o", ",", " ", "R", "u", "s", "t">>)

\* C22: idempotence.  Whenever an evaluation returns a string that holds
\* no double-brace construct, putting that string through the pipeline
\* again as raw markup, against any data, returns it unchanged.
C22_Idempotent ==
  Evaluated /\ ret.err = "" /\ IsPlainText(ret.out)
    => \A d \in DataSet :
         LET again == processTemplate(ret.out, d, 0)
         IN /\ again.err = "" /\ again.out = ret.out
            /\ \A k \in 1..Len(again.log) :
                 again.log[k].ev \notin {"scope", "call"}

\* C22 witness: a template with constructs returned non-empty plain text.
C22_Witness ==
  /\ Evaluated /\ ret.err = ""
  /\ ~IsPlainText(ArgTemplate)
  /\ IsPlainText(ret.out) /\ ret.out # <<>>
  /\ \E d \in DataSet : d # ArgData /\ processTemplate(ret.out, d, 0).out = ret.out

\* C23: conditional blocks written one after another are evaluated
\* independently: for a bare-if block followed by an if/else block, each
\* block is keyed by its own path and replaced by its own selected branch,
\* so the output is the concatenation of what each block renders alone,
\* and no branch absorbs a neighbour's markers.
C23_ConsecutiveBlocksIndependent ==
  Evaluated /\ ArgTemplate = ConsecutiveConditionals
    => LET first == processTemplate(IfBlock(<<"flag">>, <<Txt("x")>>),
                                    ArgData, 0)
           second == processTemplate(
                       IfElseBlock(<<"name">>, <<Txt("y")>>, <<Txt("z")>>),
                       ArgData, 0)
       IN /\ ret.err = ""
          /\ ret.out = first.out \o second.out
          /\ ret.out =
               (IF Truthy(getValueByPath(ArgData, <<"flag">>))
                THEN <<Txt("x")>> ELSE <<>>)
               \o (IF Truthy(getValueByPath(ArgData, <<"name">>))
                   THEN <<Txt("y")>> ELSE <<Txt("z")>>)
          /\ IsPlainText(ret.out)

\* A text with each double-brace construct in it taken as so many inert
\* characters: the same characters, no longer a construct.
C24_InertText(text) ==
  [i \in 1..Len(text) |-> [text[i] EXCEPT !.k = "txt"]]

RECURSIVE C24_Inert(_)
\* A data value with every string in it made inert.
C24_Inert(v) ==
  CASE v.t = "str" -> Str(C24_InertText(v.s))
    [] v.t = "arr" -> Arr([i \in 1..Len(v.a) |-> C24_Inert(v.a[i])])
    [] v.t = "obj" -> Obj([k \in DOMAIN v.o |-> C24_Inert(v.o[k])])
    [] OTHER -> v

\* C24: data is never interpreted as template markup.  Text put into the
\* output from the data context is emitted verbatim: the evaluation ends
\* as it does against the context whose strings hold the same characters
\* as inert text, returns the same characters, and performs no loop
\* iteration or helper invocation more.
C24_DataIsNotMarkup ==
  Evaluated
    => LET inert == processTemplate(ArgTemplate, C24_Inert(ArgData), 0)
       IN /\ ret.err = inert.err
          /\ C24_InertText(ret.out) = C24_InertText(inert.out)
          /\ Len(ret.log) = Len(inert.log)
          /\ \A k \in 1..Len(ret.log) : ret.log[k].ev = inert.log[k].ev

\* The values the claim has select no then branch: empty (string or
\* sequence), zero, false, null, absent.
C25_Empty == {Str(<<>>), Arr(<<>>), Num(0), Bool(FALSE), Null, Undef}

\* What a one-block template is to render under the claim.
C25_Expected(t, data) ==
  LET e == FirstLex(t, "else", 1)
      x == SubSeq(t, 2, (IF e = 0 THEN Len(t) ELSE e) - 1)
      y == IF e = 0 THEN <<>> ELSE SubSeq(t, e + 1, Len(t) - 1)
  IN IF getValueByPath(data, t[1].p) \in C25_Empty
     THEN processTemplate(y, data, 0)
     ELSE processTemplate(x, data, 0)

\* C25: the then branch of a conditional is selected exactly when the
\* resolved value is non-empty, non-zero, non-false and neither null nor
\* absent; a path that resolves to an empty sequence does not select it,
\* so a section guarded by the conditional is omitted when its list is
\* empty (stated for data that holds no markup).
C25_ThenBranchIffNonEmpty ==
  (Evaluated /\ C5_IsOneBlock(ArgTemplate) /\ MarkupFree(ArgData))
    => SameResult(ret, C25_Expected(ArgTemplate, ArgData))

\* The pass calls and returns of the invocations of the pipeline with
\* `depth` activations below them, in the order they happened.
C26_PassEvents(depth) ==
  SelectSeq(ret.log,
            LAMBDA e : e.ev \in {"begin", "end"} /\ e.depth = depth)

\* C26: within every invocation of the pipeline, top level and recursive,
\* the four passes run in the order loop expansion, conditional
\* expansion, variable substitution, helper invocation: the calls and
\* returns of each invocation alternate through the four passes in that
\* order, each pass is called right after the previous one returned and
\* with what it returned, no pass is passed over or run twice, what
\* happens between a pass's call and its return belongs to deeper
\* invocations, and an invocation that returns has run all four (one
\* that an exception ends stops inside the pass that threw).
C26_PassOrder ==
  Evaluated =>
    /\ \A d \in 0..MaxStack :
         LET ev == C26_PassEvents(d)
         IN /\ \A k \in 1..Len(ev) :
                 LET pos == (k - 1) % 8
                 IN /\ ev[k].pass = PassNames[pos \div 2 + 1]
                    /\ ev[k].ev = IF pos % 2 = 0 THEN "begin" ELSE "end"
                    /\ pos \in {2, 4, 6} => ev[k].text = ev[k - 1].text
            /\ ret.err = "" => Len(ev) % 8 = 0
            /\ Len(ev) % 2 = 1 => ret.err # ""
    /\ \A k \in 1..Len(ret.log) - 1 :
         LET e == ret.log[k]
             n == ret.log[k + 1]
         IN /\ (e.ev = "end" /\ e.pass # "helpers")
                => n.ev = "begin" /\ n.depth = e.depth
            /\ (e.ev = "begin" /\ n.ev \in {"begin", "end"})
                => \/ n.ev = "end" /\ n.depth = e.depth /\ n.pass = e.pass
                   \/ n.ev = "begin" /\ n.depth = e.depth + 1
                      /\ n.pass = "loops"
                      /\ e.pass \in {"loops", "conditionals"}
    /\ (ArgTemplate \in RawTemplates /\ templates = <<>>)
         => /\ ret.log # <<>>
            /\ ret.log[1].ev = "begin" /\ ret.log[1].depth = 0
            /\ ret.log[1].text = ArgTemplate
            /\ ret.err = ""
                 => /\ ret.log[Len(ret.log)].ev = "end"
                    /\ ret.log[Len(ret.log)].depth = 0
                    /\ ret.log[Len(ret.log)].text = ret.out

\* C26 witness: a loop over two elements was rendered: the top-level
\* invocation and the two invocations on the loop body each ran the four
\* passes, and the helper pass of a body invocation was given text.
C26_Witness ==
  /\ Evaluated /\ ret.err = ""
  /\ Len(C26_PassEvents(0)) = 8
  /\ Len(C26_PassEvents(1)) = 16
  /\ \E k \in 1..Len(ret.log) :
       ret.log[k].ev = "begin" /\ ret.log[k].depth = 1
       /\ ret.log[k].pass = "helpers" /\ ret.log[k].text # <<>>
  /\ ret.out # <<>>

\* {{#each items}}{{this.title}}{{/each}}
C27_Template == LoopBlock(<<"items">>, <<Var(<<"this", "title">>)>>)

\* What the claim has the loop render: for each element, what the
\* variable-substitution pass renders for this.title in the loop scope
\* of that iteration.
C27_Expected(data, items) ==
  Concat([i \in 1..Len(items) |->
            VarText(Var(<<"this", "title">>),
                    LoopScope(data, items[i], i - 1, Len(items)))])

\* C27: inside a loop body {{this.X}} renders what the variable pass
\* renders for the path this.X in the iteration's scope: nothing when
\* the property is absent or null, its JSON serialization when it is a
\* mapping or a sequence, its string conversion otherwise (stated for
\* sequences of mappings and data that holds no markup).
C27_ThisPropAsVariable ==
  LET items == getValueByPath(ArgData, <<"items">>)
  IN (/\ Evaluated /\ ArgTemplate = C27_Template
      /\ MarkupFree(ArgData)
      /\ items.t = "arr"
      /\ \A i \in 1..Len(items.a) : items.a[i].t = "obj")
       => ret.err = "" /\ ret.out = C27_Expected(ArgData, items.a)

\* Paths of the enclosing context a template may refer to.
C28_Paths ==
  {<<"name">>, <<"b">>, <<"flag">>, <<"items">>, <<"5">>,
   <<"name", "title">>, <<"items", "title">>, <<"name", "title", "b">>,
   <<"items", "achievements">>, <<"nokey">>}

\* The position in the trace of the k-th loop scope.
C28_At(k) ==
  CHOOSE i \in 1..Len(ret.log) :
    /\ ret.log[i].ev = "scope"
    /\ Cardinality({j \in 1..i : ret.log[j].ev = "scope"}) = k

\* The context that encloses the scope at position i of the trace: the
\* caller's data for a top-level loop, else the scope of the iteration
\* the loop runs in.
C28_Enclosing(i) ==
  IF ret.log[i].depth = 1 THEN ArgData
  ELSE LET outer == {j \in 1..(i - 1) :
                       /\ ret.log[j].ev = "scope"
                       /\ ret.log[j].depth = ret.log[i].depth - 1}
       IN ret.log[CHOOSE j \in outer : \A m \in outer : m <= j].data

\* The position of the call of the top-level helper pass in the trace.
C28_TopHelpers ==
  {i \in 1..Len(ret.log) :
     /\ ret.log[i].ev = "begin" /\ ret.log[i].depth = 0
     /\ ret.log[i].pass = "helpers"}

\* C28: a loop scope is a shallow copy of the enclosing context extended
\* with the loop bindings and lives for one iteration only.  Inside a
\* loop body every path of the enclosing context that does not start
\* with a reserved binding resolves to the same value as outside the
\* loop; each iteration's scope is built from the enclosing context, not
\* from the scope before it; and after the loop region references are
\* resolved against the original context, in which the current item and
\* the flags are not bound by the loop.
C28_LoopScopeIsACopy ==
  Evaluated =>
    /\ \A k \in 1..Len(Scopes) :
         LET e == Scopes[k]
             outer == C28_Enclosing(C28_At(k))
         IN /\ e.given = outer
            /\ \A p \in C28_Paths :
                 getValueByPath(e.data, p) = getValueByPath(outer, p)
            /\ \A key \in DOMAIN e.data.o \ LoopBindings :
                 e.data.o[key] = GetProp(outer, key)
            /\ getValueByPath(e.data, <<"this">>) = e.item
            /\ getValueByPath(e.data, <<"@index">>) = Num(e.index)
            /\ getValueByPath(e.data, <<"@first">>) = Bool(e.first)
            /\ getValueByPath(e.data, <<"@last">>) = Bool(e.last)
            /\ \A b \in LoopBindings :
                 GetProp(e.after, b) = GetProp(outer, b)
    /\ \A i \in C28_TopHelpers :
         \A j \in i..Len(ret.log) :
           ret.log[j].ev = "call" => ret.log[j].data = ArgData
    /\ \A i \in 1..Len(ret.log) - 1 :
         (/\ ret.log[i].ev = "begin" /\ ret.log[i].depth = 0
          /\ ret.log[i].pass = "variables")
           => ret.log[i + 1].text =
                Concat([j \in 1..Len(ret.log[i].text) |->
                  IF ret.log[i].text[j].k = "var"
                  THEN VarText(ret.log[i].text[j], ArgData)
                  ELSE IF ret.log[i].text[j].k = "else" THEN <<>>
                  ELSE <<ret.log[i].text[j]>>])
    /\ (ArgTemplate = AfterLoopRefs /\ ret.err = "")
         => \E n \in 1..Len(ret.out) :
              /\ ret.out[n] = Txt("|")
              /\ SubSeq(ret.out, n + 1, Len(ret.out))
                   = VarText(Var(<<"name">>), ArgData)
                     \o (IF getValueByPath(ArgData, <<"b">>) = Undef
                         THEN <<>>
                         ELSE ToStr(getValueByPath(ArgData, <<"b">>)))

\* C28 witness: {{#each items}}{{name}}{{this}},{{/each}}|{{this}}{{name}}
\* {{if this.title name b}} over [Go, Rust] with name Ada rendered
\* AdaGo,AdaRust,|Adav: name is Ada inside and outside, {{this}} is the
\* element inside the loop and nothing after it.
C28_Witness ==
  /\ Evaluated /\ ArgTemplate = AfterLoopRefs
  /\ Len(Scopes) = 2
  /\ ArgData.t = "obj" /\ "this" \notin DOMAIN ArgData.o
  /\ Scopes[2].item = Rust
  /\ getValueByPath(Scopes[2].data, <<"name">>) = Ada
  /\ ret.out = Ada.s \o Go.s \o <<Txt(",")>> \o Ada.s \o Rust.s
                \o <<Txt(","), Txt("|")>> \o Ada.s \o <<Txt("v")>>

\* The constructs of a text that are one identifier, a registered
\* helper's name, and nothing else.
C29_BareNames(text) ==
  {i \in 1..Len(text) :
     /\ text[i].k = "var" /\ Len(text[i].p) = 1
     /\ text[i].p[1] \in DOMAIN helpers}

\* A construct that is a single identifier is consumed by the variable
\* pass as a data path and rendered from the data context, and the helper
\* of that name is not called: no text given to a helper pass holds such
\* a construct, and a template that is one renders what the path resolves
\* to (nothing if absent) with no helper invoked.
C29_BareNameIsAPath ==
  /\ \A k \in 1..Len(ret.log) :
       (ret.log[k].ev = "begin" /\ ret.log[k].pass = "helpers")
         => C29_BareNames(ret.log[k].text) = {}
  /\ (Len(ArgTemplate) = 1 /\ C29_BareNames(ArgTemplate) = {1})
       => /\ ret.err = "" /\ Invocations = <<>>
          /\ LET value == getValueByPath(ArgData, ArgTemplate[1].p)
             IN ret.out = IF value \in {Undef, Null} THEN <<>>
                          ELSE IF value.t \in {"arr", "obj"} THEN Json(value)
                          ELSE ToStr(value)

\* C29 as stated: a registered helper is invoked only through a construct
\* that has at least one argument (every invocation passes an argument),
\* and a construct that is a single identifier is consumed by the
\* variable pass as a data path, the helper of that name not called.
C29_InvokedOnlyWithArguments ==
  Evaluated =>
    /\ \A k \in 1..Len(Invocations) : Len(Invocations[k].args) >= 1
    /\ C29_BareNameIsAPath

\* C29 amended: a registered helper is invoked only through a construct
\* in which its name is followed by whitespace and argument text, blank
\* text included (then the helper is called with no argument); a
\* construct that is a single identifier is consumed by the variable pass
\* as a data path, the helper of that name not called.
C29_InvokedOnlyWithArgumentText ==
  Evaluated =>
    /\ \A k \in 1..Len(Invocations) :
         LET e == Invocations[k]
         IN /\ e.text # <<>>
            /\ e.name \in DOMAIN helpers
            /\ Len(e.args) = 0 => \A i \in 1..Len(e.text) : e.text[i].c = "sp"
    /\ C29_BareNameIsAPath

\* C29 witness: {{join}} was rendered against data that holds join: "Go";
\* the output is Go and the join helper was not invoked.
C29_Witness ==
  /\ Evaluated
  /\ ArgTemplate = <<Var(<<"join">>)>>
  /\ "join" \in DOMAIN helpers
  /\ getValueByPath(ArgData, <<"join">>) = Go
  /\ ret.out = Go.s /\ Invocations = <<>>

\* The entries of the template registry under other names, in order.
C30_Others(map, name) == SelectSeq(map, LAMBDA e : e.name # name)

\* One step of an operation with the frame C30 gives it.
C30_Step ==
  /\ last'.op \in {"getTemplate", "getTemplateNames", "render",
                  "compile", "call"}
      => templates' = templates /\ helpers' = helpers
  /\ last'.op = "registerTemplate"
      => /\ helpers' = helpers
         /\ C30_Others(templates', last'.args[1])
              = C30_Others(templates, last'.args[1])
         /\ Len(templates')
              = Len(C30_Others(templates, last'.args[1])) + 1
  /\ last'.op = "registerHelper"
      => /\ templates' = templates
         /\ DOMAIN helpers' = DOMAIN helpers \cup {last'.args[1]}
         /\ \A h \in DOMAIN helpers \ {last'.args[1]} :
              helpers'[h] = helpers[h]
  /\ last'.op \in {"getTemplate", "getTemplateNames", "render",
                   "compile", "call", "registerTemplate",
                   "registerHelper"}

\* C30: the registries change only through registration.  getTemplate,
\* getTemplateNames, render, compile and a call of a compiled function
\* leave the template registry and the helper registry as they are;
\* registerTemplate changes the named entry of the template registry
\* only and leaves the helper registry; registerHelper changes the named
\* entry of the helper registry only and leaves the template registry.
C30_RegistriesFrame == [][C30_Step]_vars

\* C30 witness: with both template names registered and shout replaced,
\* capitalize was just re-registered: the templates and the other five
\* helpers are in place.
C30_Witness ==
  /\ last.op = "registerHelper"
  /\ last.args = <<"capitalize", "boom">>
  /\ Len(templates) = 2
  /\ helpers["capitalize"] = "boom"
  /\ "shout" \in DOMAIN helpers /\ helpers["shout"] = "constB"
  /\ \A h \in DOMAIN DefaultHelpers \ {"capitalize"} :
       helpers[h] = DefaultHelpers[h]

====
